---------------------------- MODULE Spec2Model ----------------------------
(***************************************************************************)
(* Pj-OGUN discrete-event simulation engine                                *)
(* (src/pj-ogun/src/pj_ogun/simulation/engine.py, plus the event log of    *)
(* src/src/pj_ogun/simulation/events.py).                                  *)
(*                                                                         *)
(* The engine is a set of SimPy generator processes driven by one event    *)
(* queue ordered by (time, priority, event id).  One step of the model is  *)
(* one env.step(): the earliest event is popped and the process waiting on *)
(* it runs to its next yield.  Times are whole minutes.  Vehicle ids are   *)
(* the positions of the vehicles in scenario.vehicles; entity ids are the  *)
(* per-kind counters of the event log.                                     *)
(***************************************************************************)
EXTENDS Integers, Sequences, FiniteSets, TLC

VARIABLES
    scenario,          \* the validated scenario (read-only input)
    phase,             \* "UNINITIALIZED" | "RUNNING" | "ENDED" | "RAISED"
    now,               \* env.now
    eid,               \* env._eid: number of events scheduled so far
    queue,             \* env._queue: the scheduled events
    log,               \* event_log._events
    counters,          \* event_log._casualty_counter, _breakdown_counter, ...
    casualties,        \* event_log._casualties: id number -> Casualty
    breakdowns,        \* event_log._breakdowns
    ammo_requests,     \* event_log._ammo_requests
    casualty_queue,    \* heap of CasualtyRequest
    recovery_queue,    \* heap of RecoveryRequest
    ammo_queue,        \* heap of AmmoDeliveryRequest
    vehicles,          \* vehicle id -> VehicleRuntime
    idle_ambulances,   \* list of vehicle ids
    idle_recovery,     \* tow class -> list of vehicle ids
    idle_logistics,    \* list of vehicle ids
    node_resources,    \* node id -> simpy.Resource (users, put_queue)
    vproc,             \* vehicle id -> position and locals of its process
    tproc,             \* casualty id -> position of its treatment process
    rproc,             \* breakdown id -> position of its repair process
    gproc,             \* demand generators: position of each
    xproc,             \* vehicle id -> positions of its three modulators
    call               \* the last query put to a routing or validation
                       \* function, with its answer

vars == <<scenario, phase, now, eid, queue, log, counters, casualties, breakdowns,
          ammo_requests, casualty_queue, recovery_queue, ammo_queue, vehicles,
          idle_ambulances, idle_recovery, idle_logistics, node_resources,
          vproc, tproc, rproc, gproc, xproc, call>>

----------------------------------------------------------------------------
(* Program constants *)

\* Optional[...] = None (an unset timestamp, capacity, time or vehicle id)
None == -1
\* float("inf"): the travel time of an unreachable destination
Inf == 1000000
\* simpy priorities of scheduled events
SIMPY_URGENT == 0
SIMPY_NORMAL == 1
\* the polling interval of an idle or waiting vehicle loop
POLL_MINS == 1
DEFAULT_TREATMENT_MINS == 30
DEFAULT_REPAIR_MINS == 60
DEFAULT_HOOKUP_MINS == 15
DEFAULT_AMMO_CAPACITY == 1000
FATIGUE_CHECK_MINS == 15
REST_DURATION_MINS == 480
MAINTENANCE_WAIT_MINS == 5
MAINTENANCE_DURATION_MINS == 120
DEFAULT_MTBF_HOURS == 200

Min(a, b) == IF a <= b THEN a ELSE b

\* F(x), with the argument x evaluated once, before F is applied to it
Strict(x, F(_)) == CHOOSE result \in {F(value) : value \in {x}} : TRUE

----------------------------------------------------------------------------
(* Python list helpers *)

\* x in lst
In(x, lst) == \E i \in 1..Len(lst) : lst[i] = x

\* lst.remove(x): drops the first occurrence (the caller checks In first;
\* Python raises ValueError when x is absent)
FirstIndex(x, lst) == CHOOSE i \in 1..Len(lst) :
                          lst[i] = x /\ \A j \in 1..(i-1) : lst[j] # x
Remove(x, lst) ==
    LET k == FirstIndex(x, lst)
    IN [i \in 1..(Len(lst)-1) |-> IF i < k THEN lst[i] ELSE lst[i+1]]

----------------------------------------------------------------------------
(* heapq on lists of requests.  The request dataclasses are order=True     *)
(* with every field but `priority` declared compare=False, so `<` compares *)
(* the priority alone.  Sequence index i is Python position i-1.           *)

RequestLess(a, b) == a.priority < b.priority

\* heapq._siftdown(heap, startpos, pos) with newitem carried along
RECURSIVE SiftDown(_, _, _, _)
SiftDown(heap, startpos, pos, newitem) ==
    IF pos > startpos /\ RequestLess(newitem, heap[pos \div 2])
    THEN SiftDown([heap EXCEPT ![pos] = heap[pos \div 2]], startpos,
                  pos \div 2, newitem)
    ELSE [heap EXCEPT ![pos] = newitem]

\* the loop of heapq._siftup: bubble the smaller child up until a leaf
RECURSIVE SiftUpLoop(_, _, _)
SiftUpLoop(heap, pos, newitem) ==
    LET endpos == Len(heap)
        left == 2 * pos
        right == left + 1
        childpos == IF right <= endpos /\ ~RequestLess(heap[left], heap[right])
                    THEN right ELSE left
    IN IF left <= endpos
       THEN SiftUpLoop([heap EXCEPT ![pos] = heap[childpos]], childpos, newitem)
       ELSE SiftDown(heap, 1, pos, newitem)

heappush(heap, item) == SiftDown(Append(heap, item), 1, Len(heap) + 1, item)

\* faulty variant: takes the request at the end of the list
heappop_last(heap) ==
    [item |-> heap[Len(heap)], heap |-> SubSeq(heap, 1, Len(heap) - 1)]

\* heappop: [item, heap] for a non-empty heap
heappop(heap) ==
    LET lastelt == heap[Len(heap)]
        rest == SubSeq(heap, 1, Len(heap) - 1)
    IN IF rest = <<>>
       THEN [item |-> lastelt, heap |-> rest]
       ELSE [item |-> heap[1], heap |-> SiftUpLoop(rest, 1, lastelt)]

----------------------------------------------------------------------------
(* Network graph and routing *)

NoNode == "None"

NodeIds(sc) == {sc.nodes[i].id : i \in 1..Len(sc.nodes)}

\* scenario.get_node_by_id: the first node of the list with that id
get_node_by_id(sc, node_id) ==
    LET idx == {i \in 1..Len(sc.nodes) : sc.nodes[i].id = node_id}
    IN sc.nodes[CHOOSE i \in idx : \A j \in idx : i <= j]

\* _build_graph: an undirected nx.Graph; add_edge on a pair already joined
\* overwrites its attributes, so the last edge of the list wins.
\* effective_km = distance_km * terrain_factor; Inf when not adjacent.
effective_km(sc, a, b) ==
    LET idx == {i \in 1..Len(sc.edges) :
                   {sc.edges[i].from_node, sc.edges[i].to_node} = {a, b}}
        last == CHOOSE i \in idx : \A j \in idx : j <= i
    IN IF idx = {} THEN Inf
       ELSE sc.edges[last].distance_km * sc.edges[last].terrain_factor

SetMin(S) ==
    CHOOSE x \in S : \A y \in S : x <= y

\* weight of a lightest path from a to b of at most k edges (Inf: none)
RECURSIVE PathLen(_, _, _, _)
PathLen(sc, a, b, k) ==
    IF a = b THEN 0
    ELSE IF k = 0 THEN Inf
    ELSE LET via == {c \in NodeIds(sc) \ {a} :
                        /\ effective_km(sc, a, c) < Inf
                        /\ PathLen(sc, c, b, k - 1) < Inf}
         IN IF via = {} THEN Inf
            ELSE SetMin({effective_km(sc, a, c) + PathLen(sc, c, b, k - 1) :
                            c \in via})

\* nx.shortest_path_length(graph, a, b, weight="effective_km");
\* Inf stands for the NetworkXNoPath exception
shortest_path_length(sc, a, b) == PathLen(sc, a, b, Len(sc.nodes) - 1)

\* _calculate_travel_time: total_km / speed_kmh * 60
calculate_travel_time(sc, from_node, to_node, speed_kmh) ==
    IF from_node = to_node THEN 0
    ELSE IF shortest_path_length(sc, from_node, to_node) = Inf THEN Inf
    ELSE (shortest_path_length(sc, from_node, to_node) * 60) \div speed_kmh

\* faulty variant: an equally distant later node replaces the best
RECURSIVE NearestScanLast(_, _, _, _, _, _)
NearestScanLast(sc, from_node, types, i, best_node, best_distance) ==
    IF i > Len(sc.nodes) THEN best_node
    ELSE LET node == sc.nodes[i]
             dist == shortest_path_length(sc, from_node, node.id)
         IN IF node.type \in types /\ dist <= best_distance /\ dist < Inf
            THEN NearestScanLast(sc, from_node, types, i + 1, node.id, dist)
            ELSE NearestScanLast(sc, from_node, types, i + 1, best_node,
                                 best_distance)

\* the loop of _find_nearest_medical / _workshop / _ammo_point over
\* scenario.nodes[i..]: a strictly smaller distance replaces the best
RECURSIVE NearestScan(_, _, _, _, _, _)
NearestScan(sc, from_node, types, i, best_node, best_distance) ==
    IF i > Len(sc.nodes) THEN best_node
    ELSE LET node == sc.nodes[i]
             dist == shortest_path_length(sc, from_node, node.id)
         IN IF node.type \in types /\ dist < best_distance
            THEN NearestScan(sc, from_node, types, i + 1, node.id, dist)
            ELSE NearestScan(sc, from_node, types, i + 1, best_node,
                             best_distance)

find_nearest_medical(sc, from_node) ==
    NearestScan(sc, from_node, {"medical_role1", "medical_role2"}, 1,
                NoNode, Inf)
find_nearest_workshop(sc, from_node) ==
    NearestScan(sc, from_node, {"repair_workshop"}, 1, NoNode, Inf)
find_nearest_ammo_point(sc, from_node) ==
    NearestScan(sc, from_node, {"ammo_point"}, 1, NoNode, Inf)

\* _can_tow: class_order.get(recovery_class, 0) >= class_order.get(broken, 0)
class_order(c) == CASE c = "light" -> 0 [] c = "medium" -> 1
                    [] c = "heavy" -> 2 [] OTHER -> 0
\* faulty variant: no compatibility check
can_tow_any(recovery_class, broken_class) == TRUE
can_tow(recovery_class, broken_class) ==
    class_order(recovery_class) >= class_order(broken_class)

----------------------------------------------------------------------------
(* The engine state as one record, so that the code run between two yields *)
(* composes as functions from state to state.                              *)

St == [scenario |-> scenario, phase |-> phase, now |-> now, eid |-> eid,
       queue |-> queue, log |-> log, counters |-> counters,
       casualties |-> casualties,
       breakdowns |-> breakdowns, ammo_requests |-> ammo_requests,
       casualty_queue |-> casualty_queue, recovery_queue |-> recovery_queue,
       ammo_queue |-> ammo_queue, vehicles |-> vehicles,
       idle_ambulances |-> idle_ambulances, idle_recovery |-> idle_recovery,
       idle_logistics |-> idle_logistics, node_resources |-> node_resources,
       vproc |-> vproc, tproc |-> tproc, rproc |-> rproc, gproc |-> gproc,
       xproc |-> xproc]

\* the step is committed: every variable takes its value in S (S is
\* evaluated once)
Commit(S) ==
    \E T \in {S} :
        /\ scenario' = T.scenario
        /\ phase' = T.phase
        /\ now' = T.now
        /\ eid' = T.eid
        /\ queue' = T.queue
        /\ log' = T.log
        /\ counters' = T.counters
        /\ casualties' = T.casualties
        /\ breakdowns' = T.breakdowns
        /\ ammo_requests' = T.ammo_requests
        /\ casualty_queue' = T.casualty_queue
        /\ recovery_queue' = T.recovery_queue
        /\ ammo_queue' = T.ammo_queue
        /\ vehicles' = T.vehicles
        /\ idle_ambulances' = T.idle_ambulances
        /\ idle_recovery' = T.idle_recovery
        /\ idle_logistics' = T.idle_logistics
        /\ node_resources' = T.node_resources
        /\ vproc' = T.vproc
        /\ tproc' = T.tproc
        /\ rproc' = T.rproc
        /\ gproc' = T.gproc
        /\ xproc' = T.xproc
        /\ call' = call

----------------------------------------------------------------------------
(* simpy.Environment *)

\* env.schedule(event, priority, delay): heappush of
\* (now + delay, priority, next(eid), event).  pk/id name the process the
\* event resumes (or the resource callback it runs).
schedule(state, priority, delay, pk, id) == Strict(state, LAMBDA S :
    [S EXCEPT !.eid = @ + 1,
              !.queue = @ \cup {[time |-> IF delay = Inf THEN Inf
                                          ELSE S.now + delay,
                                 priority |-> priority, eid |-> S.eid,
                                 pk |-> pk, id |-> id]}])

\* yield env.timeout(delay)
timeout(S, delay, pk, id) == schedule(S, SIMPY_NORMAL, delay, pk, id)
\* env.process(generator): an Initialize event, URGENT, at the current time
process(S, pk, id) == schedule(S, SIMPY_URGENT, 0, pk, id)

EventBefore(e, f) ==
    \/ e.time < f.time
    \/ e.time = f.time /\ e.priority < f.priority
    \/ e.time = f.time /\ e.priority = f.priority /\ e.eid <= f.eid

\* env.step(): heappop of the queue
NextEvent(q) == CHOOSE e \in q : \A f \in q : EventBefore(e, f)

\* the state in which the callbacks of the popped event run
Popped(state) == Strict(state, LAMBDA S :
    [S EXCEPT !.now = NextEvent(S.queue).time,
              !.queue = @ \ {NextEvent(S.queue)},
              !.vehicles = [v \in DOMAIN @ |->
                               [@[v] EXCEPT !.assigned = <<>>]]])

----------------------------------------------------------------------------
(* EventLog *)

CasId(n) == [prefix |-> "CAS_", number |-> n]
BdId(n) == [prefix |-> "BD_", number |-> n]
AmmoId(n) == [prefix |-> "AMMO_", number |-> n]
VehId(v) == [prefix |-> "VEH_", number |-> v]
SYSTEM == [prefix |-> "SYSTEM", number |-> 0]

\* the keyword details of an event that the model keeps: the entity the
\* event refers to (casualty_id, breakdown_id, ammo_request_id, vehicle_id),
\* event_subtype and quantity
NoDetails == [ref |-> SYSTEM, event_subtype |-> "", quantity |-> 0]
Ref(entity_id) == [NoDetails EXCEPT !.ref = entity_id]

\* faulty variant: the event is put in front of the list
log_event_in_front(S, event_type, entity_id, location, details) ==
    [S EXCEPT !.log = <<[time_mins |-> S.now, event_type |-> event_type,
                         entity_id |-> entity_id, location |-> location,
                         details |-> details]>> \o @]

\* EventLog.events: sorted(self._events, key=time_mins); sorted() is
\* stable, so an event goes behind the events that are not later than it
RECURSIVE EventLog_events(_)
EventLog_events(l) ==
    IF l = <<>> THEN <<>>
    ELSE LET e == l[Len(l)]
             before == EventLog_events(SubSeq(l, 1, Len(l) - 1))
             k == Cardinality({i \in 1..Len(before) :
                                  before[i].time_mins <= e.time_mins})
         IN SubSeq(before, 1, k) \o <<e>> \o SubSeq(before, k + 1, Len(before))

\* EventLog.log_event: append a SimEvent
log_event_details(state, event_type, entity_id, location, details) == Strict(state, LAMBDA S :
    [S EXCEPT !.log = Append(@, [time_mins |-> S.now,
                                 event_type |-> event_type,
                                 entity_id |-> entity_id,
                                 location |-> location,
                                 details |-> details])])
log_event(S, event_type, entity_id, location) ==
    log_event_details(S, event_type, entity_id, location, NoDetails)

\* an uncaught exception leaves env.run() and run(): the run is aborted
Raise(S) == [S EXCEPT !.phase = "RAISED"]

\* faulty variant: the counter is not advanced before the ID is made
create_casualty_stale_counter(S, priority, origin_node, time_generated) ==
    LET n == IF S.counters.casualty = 0 THEN 1 ELSE S.counters.casualty
    IN [S EXCEPT !.counters.casualty = n,
                 !.casualties =
                     (n :> [id |-> CasId(n), priority |-> priority,
                            origin_node |-> origin_node,
                            time_generated |-> time_generated,
                            time_collected |-> None, time_delivered |-> None,
                            time_treatment_started |-> None,
                            time_treatment_completed |-> None,
                            collected_by |-> None, delivered_to |-> NoNode])
                     @@ @]

\* EventLog.create_casualty
create_casualty(state, priority, origin_node, time_generated) == Strict(state, LAMBDA S :
    LET n == S.counters.casualty + 1
        casualty == [id |-> CasId(n), priority |-> priority,
                     origin_node |-> origin_node,
                     time_generated |-> time_generated,
                     time_collected |-> None, time_delivered |-> None,
                     time_treatment_started |-> None,
                     time_treatment_completed |-> None,
                     collected_by |-> None, delivered_to |-> NoNode]
    IN [S EXCEPT !.counters.casualty = n,
                 !.casualties = (n :> casualty) @@ @])

\* EventLog.create_breakdown
create_breakdown(S, vehicle_id, vehicle_class, location, time_occurred, priority) ==
    LET n == S.counters.breakdown + 1
        breakdown == [id |-> BdId(n), vehicle_id |-> vehicle_id,
                      vehicle_class |-> vehicle_class, location |-> location,
                      time_occurred |-> time_occurred, priority |-> priority,
                      time_recovery_dispatched |-> None,
                      time_recovery_arrived |-> None,
                      time_hookup_completed |-> None,
                      time_arrived_workshop |-> None,
                      time_repair_started |-> None,
                      time_repair_completed |-> None,
                      recovered_by |-> None, repaired_at |-> NoNode]
    IN [S EXCEPT !.counters.breakdown = n,
                 !.breakdowns = (n :> breakdown) @@ @]

\* EventLog.create_ammo_request
create_ammo_request(S, location, quantity_requested, time_requested, priority) ==
    LET n == S.counters.ammo_request + 1
        request == [id |-> AmmoId(n), location |-> location,
                    quantity_requested |-> quantity_requested,
                    time_requested |-> time_requested, priority |-> priority,
                    quantity_delivered |-> 0, time_dispatched |-> None,
                    time_loaded |-> None, time_delivered |-> None,
                    fulfilled_by |-> None, loaded_from |-> NoNode]
    IN [S EXCEPT !.counters.ammo_request = n,
                 !.ammo_requests = (n :> request) @@ @]

\* AmmoRequest.is_fulfilled
is_fulfilled(request) ==
    request.quantity_delivered >= request.quantity_requested

----------------------------------------------------------------------------
(* Demand generation *)

\* _generate_casualty: record, CASUALTY_GENERATED event, heappush
generate_casualty_unqueued(S, location, priority) ==
    LET S1 == create_casualty(S, priority, location, S.now)
    IN log_event(S1, "casualty_generated",
                 S1.casualties[S1.counters.casualty].id, location)

generate_casualty(state, location, priority) == Strict(state, LAMBDA S :
    LET S1 == create_casualty(S, priority, location, S.now)
        n == S1.counters.casualty
        S2 == log_event(S1, "casualty_generated", S1.casualties[n].id,
                        location)
        request == [priority |-> priority, time_requested |-> S.now,
                    casualty |-> n, location |-> location]
    IN [S2 EXCEPT !.casualty_queue = heappush(@, request)])

\* _generate_breakdown: marks the vehicle, then record, event, heappush
generate_breakdown(state, vehicle_id, location, priority) == Strict(state, LAMBDA S :
    IF vehicle_id \notin DOMAIN S.vehicles THEN S
    ELSE LET vehicle_class == S.scenario.vehicles[vehicle_id].vehicle_class
             S1 == [S EXCEPT !.vehicles[vehicle_id].state = "broken_down",
                             !.vehicles[vehicle_id].assigned =
                                 Append(@, "broken_down"),
                             !.vehicles[vehicle_id].current_location =
                                 location]
             S2 == create_breakdown(S1, vehicle_id, vehicle_class, location,
                                    S.now, priority)
             n == S2.counters.breakdown
             S3 == log_event(S2, "breakdown_occurred", S2.breakdowns[n].id,
                             location)
             request == [priority |-> priority, time_requested |-> S.now,
                         breakdown |-> n, location |-> location,
                         vehicle_class |-> vehicle_class]
         IN [S3 EXCEPT !.recovery_queue = heappush(@, request)])

\* _generate_ammo_request
generate_ammo_request(state, location, quantity, priority) == Strict(state, LAMBDA S :
    LET S1 == create_ammo_request(S, location, quantity, S.now, priority)
        n == S1.counters.ammo_request
        S2 == log_event(S1, "ammo_request_generated", S1.ammo_requests[n].id,
                        location)
        request == [priority |-> priority, time_requested |-> S.now,
                    ammo_request |-> n, location |-> location,
                    quantity |-> quantity]
    IN [S2 EXCEPT !.ammo_queue = heappush(@, request)])

\* for _ in range(quantity): self._generate_casualty(...)
RECURSIVE generate_casualties(_, _, _, _)
generate_casualties(state, location, priority, quantity) == Strict(state, LAMBDA S :
    IF quantity <= 0 THEN S
    ELSE generate_casualties(generate_casualty(S, location, priority),
                             location, priority, quantity - 1))

\* sorted(manual_events, key=lambda e: e.time_mins): a stable sort
RECURSIVE SortedByTime(_)
SortedByTime(events) ==
    IF events = <<>> THEN <<>>
    ELSE LET first == CHOOSE i \in 1..Len(events) :
                          /\ \A j \in 1..Len(events) :
                                 events[i].time_mins <= events[j].time_mins
                          /\ \A j \in 1..(i-1) :
                                 events[j].time_mins > events[i].time_mins
         IN <<events[first]>> \o
            SortedByTime(SubSeq(events, 1, first - 1) \o
                         SubSeq(events, first + 1, Len(events)))

\* the body of the manual generator's loop for one event
manual_event(state, event) == Strict(state, LAMBDA S :
    CASE event.type = "casualty" ->
             generate_casualties(S, event.location, event.priority,
                                 event.quantity)
      [] event.type = "vehicle_breakdown" ->
             IF event.vehicle_id # None /\ event.vehicle_id \in DOMAIN S.vehicles
             THEN generate_breakdown(S, event.vehicle_id, event.location,
                                     event.priority)
             ELSE S
      [] event.type = "ammo_request" ->
             generate_ammo_request(S, event.location, event.quantity,
                                   event.priority)
      [] OTHER -> S)

\* _manual_demand_generator from event number i on, up to its next yield
RECURSIVE manual_demand_generator(_, _)
manual_demand_generator(state, i) == Strict(state, LAMBDA S :
    LET events == SortedByTime(S.scenario.demand.manual_events)
    IN IF i > Len(events) THEN [S EXCEPT !.gproc.manual = i]
       ELSE IF events[i].time_mins > S.now
       THEN timeout([S EXCEPT !.gproc.manual = i],
                    events[i].time_mins - S.now, "manual", 0)
       ELSE manual_demand_generator(manual_event(S, events[i]), i + 1))

\* _rate_based_generator for rate_based[g], resumed at gproc.rate[g], with
\* the values the RNG hands out in this step
rate_end_time(state, g) == Strict(state, LAMBDA S :
    IF S.scenario.demand.rate_based[g].active_until_mins # None
       /\ S.scenario.demand.rate_based[g].active_until_mins # 0
    THEN S.scenario.demand.rate_based[g].active_until_mins
    ELSE S.scenario.config.duration_mins)

rate_loop(state, g, interval) == Strict(state, LAMBDA S :
    IF S.now < rate_end_time(S, g)
    THEN timeout([S EXCEPT !.gproc.rate[g] = "arrival"], interval, "rate", g)
    ELSE [S EXCEPT !.gproc.rate[g] = "done"])

rate_based_generator(state, g, interval, priority, qty) == Strict(state, LAMBDA S :
    LET config == S.scenario.demand.rate_based[g]
        pc == S.gproc.rate[g]
    IN CASE pc = "start" ->
                IF config.active_from_mins > 0
                THEN timeout([S EXCEPT !.gproc.rate[g] = "active"],
                             config.active_from_mins, "rate", g)
                ELSE rate_loop(S, g, interval)
         [] pc = "active" -> rate_loop(S, g, interval)
         [] pc = "arrival" ->
                IF S.now >= rate_end_time(S, g)
                THEN [S EXCEPT !.gproc.rate[g] = "done"]
                ELSE IF config.type = "casualty"
                THEN rate_loop(generate_casualties(S, config.location,
                                                   priority, qty),
                               g, interval)
                ELSE rate_loop(S, g, interval)
         [] OTHER -> S)

----------------------------------------------------------------------------
(* simpy.Resource: `users` hold a slot, `put_queue` waits in request order *)

NodeIndex(sc, node_id) ==
    CHOOSE i \in 1..Len(sc.nodes) :
        sc.nodes[i].id = node_id /\ \A j \in 1..(i-1) : sc.nodes[j].id # node_id

\* the process kind served by the resource of a node
ResourceProcess(sc, node_id) ==
    IF get_node_by_id(sc, node_id).type = "repair_workshop"
    THEN "repair" ELSE "treatment"

\* BaseResource._trigger_put with Resource._do_put: the head of put_queue
\* gets a slot if one is free (its request event is scheduled); _do_put
\* returns None, so the loop stops after the head
trigger_put(state, node_id) == Strict(state, LAMBDA S :
    LET r == S.node_resources[node_id]
    IN IF r.put_queue # <<>> /\ Len(r.users) < r.capacity
       THEN schedule([S EXCEPT !.node_resources[node_id].users =
                                   Append(@, Head(r.put_queue)),
                               !.node_resources[node_id].put_queue = Tail(@)],
                     SIMPY_NORMAL, 0, ResourceProcess(S.scenario, node_id),
                     Head(r.put_queue))
       ELSE S)

\* faulty variant: the newest request goes to the head of put_queue
resource_request_lifo(S, node_id, who) ==
    trigger_put([S EXCEPT !.node_resources[node_id].put_queue =
                              <<who>> \o @], node_id)

\* resource.request(): Put.__init__ appends to put_queue and triggers
resource_request(S, node_id, who) ==
    trigger_put([S EXCEPT !.node_resources[node_id].put_queue =
                              Append(@, who)], node_id)

\* resource.release(req) on leaving the `with` block: the slot is freed at
\* once; the Release event, once processed, runs _trigger_put
resource_release(state, node_id, who) == Strict(state, LAMBDA S :
    schedule([S EXCEPT !.node_resources[node_id].users = Remove(who, @)],
             SIMPY_NORMAL, 0, "release", NodeIndex(S.scenario, node_id)))

----------------------------------------------------------------------------
(* _treatment_process of casualty c, resumed at tproc[c].pc *)

treatment_time(node) ==
    IF node.treatment_time_mins = None \/ node.treatment_time_mins = 0
    THEN DEFAULT_TREATMENT_MINS ELSE node.treatment_time_mins

has_resource(S, node_id) == node_id \in DOMAIN S.node_resources

treatment_process(state, c) == Strict(state, LAMBDA S :
    LET pc == S.tproc[c].pc
        node_id == S.tproc[c].node
        node == get_node_by_id(S.scenario, node_id)
    IN CASE pc = "start" /\ node_id \notin NodeIds(S.scenario) ->
                [S EXCEPT !.tproc[c].pc = "done"]
         [] pc = "start" /\ node_id \in NodeIds(S.scenario) ->
                IF has_resource(S, node_id)
                THEN resource_request([S EXCEPT !.tproc[c].pc = "request"],
                                      node_id, c)
                ELSE timeout([S EXCEPT
                                 !.casualties[c].time_treatment_started = S.now,
                                 !.tproc[c].pc = "treating_unlimited"],
                             treatment_time(node), "treatment", c)
         [] pc = "request" ->
                timeout(log_event([S EXCEPT
                                      !.casualties[c].time_treatment_started =
                                          S.now,
                                      !.tproc[c].pc = "treating"],
                                  "treatment_started", S.casualties[c].id,
                                  node_id),
                        treatment_time(node), "treatment", c)
         [] pc = "treating" ->
                resource_release(
                    log_event([S EXCEPT
                                  !.casualties[c].time_treatment_completed =
                                      S.now,
                                  !.tproc[c].pc = "done"],
                              "treatment_completed", S.casualties[c].id,
                              node_id),
                    node_id, c)
         [] pc = "treating_unlimited" ->
                [S EXCEPT !.casualties[c].time_treatment_completed = S.now,
                          !.tproc[c].pc = "done"]
         [] OTHER -> S)

----------------------------------------------------------------------------
(* _ambulance_process of vehicle v, resumed at vproc[v].pc *)

\* faulty variant: no availability check
always_available(S, v) == TRUE

\* the availability check at the head of the loop
ambulance_available(S, v) == In(v, S.idle_ambulances)

\* faulty variant: the collection time is not recorded
collect_casualty_unstamped(S, v, c) ==
    [S EXCEPT !.casualties[c].collected_by = v,
              !.vehicles[v].casualties_aboard = Append(@, c)]

\* lines 576-578: the casualty is collected
collect_casualty(state, v, c) == Strict(state, LAMBDA S :
    [S EXCEPT !.casualties[c].time_collected = S.now,
              !.casualties[c].collected_by = v,
              !.vehicles[v].casualties_aboard = Append(@, c)])

\* lines 553-573: arrival at the pickup location, start of loading
amb_arrive_pickup(state, v) == Strict(state, LAMBDA S :
    LET pickup == S.vproc[v].pickup
        S1 == log_event([S EXCEPT !.vehicles[v].current_location = pickup],
                        "vehicle_arrived", VehId(v), pickup)
        S2 == log_event([S1 EXCEPT !.vehicles[v].state = "loading",
                                   !.vehicles[v].assigned =
                                       Append(@, "loading")],
                        "loading_started", VehId(v), pickup)
    IN timeout([S2 EXCEPT !.vproc[v].pc = "loading"],
               S.scenario.vehicles[v].load_time_mins, "vehicle", v))

\* lines 514-551: the head of the loop, up to the travel to the pickup
amb_top(state, v) == Strict(state, LAMBDA S :
    IF S.casualty_queue = <<>>
    THEN timeout([S EXCEPT !.vproc[v].pc = "top"], POLL_MINS, "vehicle", v)
    ELSE IF ~ambulance_available(S, v)
    THEN timeout([S EXCEPT !.vproc[v].pc = "top"], POLL_MINS, "vehicle", v)
    ELSE IF ~In(v, S.idle_ambulances) THEN Raise(S)
    ELSE LET popped == heappop(S.casualty_queue)
             request == popped.item
             S1 == [S EXCEPT !.casualty_queue = popped.heap,
                             !.idle_ambulances = Remove(v, @),
                             !.vehicles[v].state = "transiting_unladen",
                             !.vehicles[v].assigned =
                                 Append(@, "transiting_unladen"),
                             !.vproc[v].request = request.casualty,
                             !.vproc[v].pickup = request.location]
             S2 == log_event_details(S1, "vehicle_dispatched", VehId(v),
                                     S.vehicles[v].current_location,
                                     Ref(CasId(request.casualty)))
             travel_time == calculate_travel_time(
                                S.scenario, S.vehicles[v].current_location,
                                request.location,
                                S.scenario.vehicles[v].unladen_kmh)
         IN IF travel_time > 0
            THEN timeout([S2 EXCEPT !.vproc[v].pc = "to_pickup"], travel_time,
                         "vehicle", v)
            ELSE amb_arrive_pickup(S2, v))

\* lines 616-635: arrival at the medical facility, start of unloading
amb_arrive_delivery(state, v) == Strict(state, LAMBDA S :
    LET delivery_node == S.vproc[v].dest
        S1 == log_event([S EXCEPT !.vehicles[v].current_location =
                                      delivery_node],
                        "vehicle_arrived", VehId(v), delivery_node)
        S2 == log_event([S1 EXCEPT !.vehicles[v].state = "unloading",
                                   !.vehicles[v].assigned =
                                       Append(@, "unloading")],
                        "unloading_started", VehId(v), delivery_node)
    IN timeout([S2 EXCEPT !.vproc[v].pc = "unloading"],
               S.scenario.vehicles[v].unload_time_mins, "vehicle", v))

\* lines 575-614: the casualty is aboard; choice of the medical facility
amb_loaded(state, v) == Strict(state, LAMBDA S :
    LET c == S.vproc[v].request
        pickup == S.vproc[v].pickup
        S1 == log_event_details(collect_casualty(S, v, c),
                                "casualty_collected", S.casualties[c].id,
                                pickup, Ref(VehId(v)))
        delivery_node == find_nearest_medical(S.scenario, pickup)
        S2 == log_event([S1 EXCEPT !.vehicles[v].state = "transiting_laden",
                                   !.vehicles[v].assigned =
                                       Append(@, "transiting_laden"),
                                   !.vproc[v].dest = delivery_node],
                        "vehicle_departed", VehId(v), pickup)
        travel_time == calculate_travel_time(S.scenario, pickup, delivery_node,
                                             S.scenario.vehicles[v].laden_kmh)
    IN IF delivery_node = NoNode
       THEN amb_top([S1 EXCEPT !.vproc[v].dest = NoNode], v)
       ELSE IF travel_time > 0
       THEN timeout([S2 EXCEPT !.vproc[v].pc = "to_delivery"], travel_time,
                    "vehicle", v)
       ELSE amb_arrive_delivery(S2, v))

\* faulty variant: the ambulance goes back to where it started
amb_unloaded_to_base(S, v) ==
    LET c == S.vproc[v].request
        delivery_node == S.vproc[v].dest
        base == S.scenario.vehicles[v].start_location
        S1 == log_event_details(
                  [S EXCEPT !.casualties[c].time_delivered = S.now,
                            !.casualties[c].delivered_to = delivery_node,
                            !.vehicles[v].casualties_aboard = Remove(c, @)],
                  "casualty_delivered", S.casualties[c].id, delivery_node,
                  Ref(VehId(v)))
        S2 == process([S1 EXCEPT !.tproc = (c :> [pc |-> "start",
                                                  node |-> delivery_node])
                                           @@ @],
                      "treatment", c)
        S3 == log_event([S2 EXCEPT !.vehicles[v].missions_completed = @ + 1,
                                   !.vehicles[v].state = "idle",
                                   !.vehicles[v].assigned = Append(@, "idle"),
                                   !.vehicles[v].current_location = base,
                                   !.idle_ambulances = Append(@, v)],
                        "vehicle_returned", VehId(v), base)
    IN amb_top(S3, v)

\* faulty variant: the delivery also stamps the collection time again
amb_unloaded_recollected(S, v) ==
    LET c == S.vproc[v].request
        delivery_node == S.vproc[v].dest
        S1 == log_event_details(
                  [S EXCEPT !.casualties[c].time_collected = S.now,
                            !.casualties[c].time_delivered = S.now,
                            !.casualties[c].delivered_to = delivery_node,
                            !.vehicles[v].casualties_aboard = Remove(c, @)],
                  "casualty_delivered", S.casualties[c].id, delivery_node,
                  Ref(VehId(v)))
        S2 == process([S1 EXCEPT !.tproc = (c :> [pc |-> "start",
                                                  node |-> delivery_node])
                                           @@ @],
                      "treatment", c)
        S3 == log_event([S2 EXCEPT !.vehicles[v].missions_completed = @ + 1,
                                   !.vehicles[v].state = "idle",
                                   !.vehicles[v].assigned = Append(@, "idle"),
                                   !.idle_ambulances = Append(@, v)],
                        "vehicle_returned", VehId(v), delivery_node)
    IN IF ~In(c, S.vehicles[v].casualties_aboard) THEN Raise(S)
       ELSE amb_top(S3, v)

\* lines 637-667: the casualty is delivered, its treatment process spawned,
\* the ambulance idle again; then the loop starts over
amb_unloaded(state, v) == Strict(state, LAMBDA S :
    LET c == S.vproc[v].request
        delivery_node == S.vproc[v].dest
        S1 == log_event_details(
                  [S EXCEPT !.casualties[c].time_delivered = S.now,
                            !.casualties[c].delivered_to = delivery_node,
                            !.vehicles[v].casualties_aboard = Remove(c, @)],
                  "casualty_delivered", S.casualties[c].id, delivery_node,
                  Ref(VehId(v)))
        S2 == process([S1 EXCEPT !.tproc = (c :> [pc |-> "start",
                                                  node |-> delivery_node])
                                           @@ @],
                      "treatment", c)
        S3 == log_event([S2 EXCEPT !.vehicles[v].missions_completed = @ + 1,
                                   !.vehicles[v].state = "idle",
                                   !.vehicles[v].assigned = Append(@, "idle"),
                                   !.idle_ambulances = Append(@, v)],
                        "vehicle_returned", VehId(v), delivery_node)
    IN IF ~In(c, S.vehicles[v].casualties_aboard) THEN Raise(S)
       ELSE amb_top(S3, v))

ambulance_process(state, v) == Strict(state, LAMBDA S :
    LET pc == S.vproc[v].pc
    IN CASE pc \in {"start", "top"} -> amb_top(S, v)
         [] pc = "to_pickup" -> amb_arrive_pickup(S, v)
         [] pc = "loading" -> amb_loaded(S, v)
         [] pc = "to_delivery" -> amb_arrive_delivery(S, v)
         [] pc = "unloading" -> amb_unloaded(S, v)
         [] OTHER -> S)

----------------------------------------------------------------------------
(* Idle pools *)

tow_class(state, v) == Strict(state, LAMBDA S :
    IF S.scenario.vehicles[v].tow_capacity_class = "None" THEN "light"
    ELSE S.scenario.vehicles[v].tow_capacity_class)

\* _return_vehicle_to_service: append to the pool of the role, if absent
return_vehicle_to_service(state, v) == Strict(state, LAMBDA S :
    IF v \notin DOMAIN S.vehicles THEN S
    ELSE LET role == S.scenario.vehicles[v].role
         IN CASE role = "ambulance" /\ ~In(v, S.idle_ambulances) ->
                     [S EXCEPT !.idle_ambulances = Append(@, v)]
              [] role = "recovery" /\ ~In(v, S.idle_recovery[tow_class(S, v)]) ->
                     [S EXCEPT !.idle_recovery[tow_class(S, v)] = Append(@, v)]
              [] role = "ammo_logistics" /\ ~In(v, S.idle_logistics) ->
                     [S EXCEPT !.idle_logistics = Append(@, v)]
              [] OTHER -> S)

\* _remove_vehicle_from_service: remove from the pool of the role, if there
remove_vehicle_from_service(state, v) == Strict(state, LAMBDA S :
    IF v \notin DOMAIN S.vehicles THEN S
    ELSE LET role == S.scenario.vehicles[v].role
         IN CASE role = "ambulance" /\ In(v, S.idle_ambulances) ->
                     [S EXCEPT !.idle_ambulances = Remove(v, @)]
              [] role = "recovery" /\ In(v, S.idle_recovery[tow_class(S, v)]) ->
                     [S EXCEPT !.idle_recovery[tow_class(S, v)] = Remove(v, @)]
              [] role = "ammo_logistics" /\ In(v, S.idle_logistics) ->
                     [S EXCEPT !.idle_logistics = Remove(v, @)]
              [] OTHER -> S)

----------------------------------------------------------------------------
(* _repair_process of breakdown b, resumed at rproc[b].pc *)

\* node.properties has no attribute repair_time_mins: the default applies
repair_time(node) == DEFAULT_REPAIR_MINS

\* lines 910-916 and 923-927: the broken vehicle goes back to service
\* faulty variant: the recovery vehicle is returned, not the broken one
recovery_vehicle_returns(S, b, node_id) ==
    return_vehicle_to_service(
        [S EXCEPT !.vehicles[S.breakdowns[b].recovered_by].state = "idle",
                  !.vehicles[S.breakdowns[b].recovered_by].assigned =
                      Append(@, "idle"),
                  !.vehicles[S.breakdowns[b].recovered_by].current_location =
                      node_id],
        S.breakdowns[b].recovered_by)

repaired_vehicle_returns(state, b, node_id) == Strict(state, LAMBDA S :
    LET broken == S.breakdowns[b].vehicle_id
    IN IF broken \in DOMAIN S.vehicles
       THEN return_vehicle_to_service(
                [S EXCEPT !.vehicles[broken].state = "idle",
                          !.vehicles[broken].assigned = Append(@, "idle"),
                          !.vehicles[broken].current_location = node_id],
                broken)
       ELSE S)

repair_process(state, b) == Strict(state, LAMBDA S :
    LET pc == S.rproc[b].pc
        node_id == S.rproc[b].node
        node == get_node_by_id(S.scenario, node_id)
    IN CASE pc = "start" /\ node_id \notin NodeIds(S.scenario) ->
                [S EXCEPT !.rproc[b].pc = "done"]
         [] pc = "start" /\ node_id \in NodeIds(S.scenario) ->
                IF has_resource(S, node_id)
                THEN resource_request([S EXCEPT !.rproc[b].pc = "request"],
                                      node_id, b)
                ELSE timeout([S EXCEPT
                                 !.breakdowns[b].time_repair_started = S.now,
                                 !.rproc[b].pc = "repairing_unlimited"],
                             repair_time(node), "repair", b)
         [] pc = "request" ->
                timeout(log_event_details(
                            [S EXCEPT !.breakdowns[b].time_repair_started =
                                          S.now,
                                      !.rproc[b].pc = "repairing"],
                            "repair_started", S.breakdowns[b].id, node_id,
                            Ref(VehId(S.breakdowns[b].vehicle_id))),
                        repair_time(node), "repair", b)
         [] pc = "repairing" ->
                resource_release(
                    repaired_vehicle_returns(
                        log_event_details(
                            [S EXCEPT !.breakdowns[b].time_repair_completed =
                                          S.now,
                                      !.rproc[b].pc = "done"],
                            "repair_completed", S.breakdowns[b].id, node_id,
                            Ref(VehId(S.breakdowns[b].vehicle_id))),
                        b, node_id),
                    node_id, b)
         [] pc = "repairing_unlimited" ->
                repaired_vehicle_returns(
                    [S EXCEPT !.breakdowns[b].time_repair_completed = S.now,
                              !.rproc[b].pc = "done"],
                    b, node_id)
         [] OTHER -> S)

----------------------------------------------------------------------------
(* _recovery_process of vehicle v, resumed at vproc[v].pc *)

\* lines 735-741: pop until a request this tow class can handle
RECURSIVE scan_recovery_queue(_, _, _)
scan_recovery_queue(heap, temp_queue, recovery_class) ==
    IF heap = <<>>
    THEN [found |-> FALSE, heap |-> heap, temp_queue |-> temp_queue]
    ELSE LET popped == heappop(heap)
         IN IF can_tow(recovery_class, popped.item.vehicle_class)
            THEN [found |-> TRUE, request |-> popped.item,
                  heap |-> popped.heap, temp_queue |-> temp_queue]
            ELSE scan_recovery_queue(popped.heap,
                                     Append(temp_queue, popped.item),
                                     recovery_class)

\* faulty variant: only the last skipped request is pushed back
push_last_only(heap, items) ==
    IF items = <<>> THEN heap ELSE heappush(heap, items[Len(items)])

\* faulty variant: the skipped requests are not pushed back
push_all_dropped(heap, items) == heap

\* lines 744-745: push the skipped requests back
RECURSIVE push_all(_, _)
push_all(heap, items) ==
    IF items = <<>> THEN heap
    ELSE push_all(heappush(heap, Head(items)), Tail(items))

hookup_time(vt) ==
    IF vt.hookup_time_mins = None \/ vt.hookup_time_mins = 0
    THEN DEFAULT_HOOKUP_MINS ELSE vt.hookup_time_mins

\* lines 780-802: arrival at the breakdown, start of the hookup
rec_arrive_pickup(state, v) == Strict(state, LAMBDA S :
    LET b == S.vproc[v].request
        pickup == S.vproc[v].pickup
        S1 == log_event([S EXCEPT !.vehicles[v].current_location = pickup,
                                  !.breakdowns[b].time_recovery_arrived =
                                      S.now],
                        "vehicle_arrived", VehId(v), pickup)
        S2 == log_event_details([S1 EXCEPT !.vehicles[v].state = "hookup",
                                           !.vehicles[v].assigned =
                                               Append(@, "hookup")],
                                "hookup_started", VehId(v), pickup,
                                Ref(BdId(b)))
    IN timeout([S2 EXCEPT !.vproc[v].pc = "hookup"],
               hookup_time(S.scenario.vehicles[v]), "vehicle", v))

\* lines 721-778: the head of the loop, up to the travel to the breakdown
rec_top(state, v) == Strict(state, LAMBDA S :
    LET wait == timeout([S EXCEPT !.vproc[v].pc = "top"], POLL_MINS,
                        "vehicle", v)
        scan == scan_recovery_queue(S.recovery_queue, <<>>, tow_class(S, v))
        restored == push_all(scan.heap, scan.temp_queue)
    IN IF S.recovery_queue = <<>> THEN wait
       ELSE IF ~In(v, S.idle_recovery[tow_class(S, v)]) THEN wait
       ELSE IF ~scan.found
       THEN timeout([S EXCEPT !.recovery_queue = restored,
                              !.vproc[v].pc = "top"],
                    POLL_MINS, "vehicle", v)
       ELSE LET b == scan.request.breakdown
                pickup == scan.request.location
                S1 == [S EXCEPT !.recovery_queue = restored,
                                !.idle_recovery[tow_class(S, v)] =
                                    Remove(v, @),
                                !.vehicles[v].state = "transiting_unladen",
                                !.vehicles[v].assigned =
                                    Append(@, "transiting_unladen"),
                                !.breakdowns[b].time_recovery_dispatched =
                                    S.now,
                                !.breakdowns[b].recovered_by = v,
                                !.vproc[v].request = b,
                                !.vproc[v].pickup = pickup]
                S2 == log_event_details(S1, "vehicle_dispatched", VehId(v),
                                        S.vehicles[v].current_location,
                                        Ref(BdId(b)))
                travel_time == calculate_travel_time(
                                   S.scenario, S.vehicles[v].current_location,
                                   pickup, S.scenario.vehicles[v].unladen_kmh)
            IN IF travel_time > 0
               THEN timeout([S2 EXCEPT !.vproc[v].pc = "to_pickup"],
                            travel_time, "vehicle", v)
               ELSE rec_arrive_pickup(S2, v))

\* lines 842-869: arrival at the workshop; the repair process is spawned and
\* the recovery vehicle is idle again; then the loop starts over
rec_arrive_workshop(state, v) == Strict(state, LAMBDA S :
    LET b == S.vproc[v].request
        workshop_node == S.vproc[v].dest
        S1 == log_event([S EXCEPT !.vehicles[v].current_location =
                                      workshop_node,
                                  !.breakdowns[b].time_arrived_workshop =
                                      S.now,
                                  !.breakdowns[b].repaired_at = workshop_node],
                        "vehicle_arrived", VehId(v), workshop_node)
        S2 == process([S1 EXCEPT !.rproc = (b :> [pc |-> "start",
                                                  node |-> workshop_node])
                                           @@ @],
                      "repair", b)
        S3 == log_event([S2 EXCEPT !.vehicles[v].missions_completed = @ + 1,
                                   !.vehicles[v].state = "idle",
                                   !.vehicles[v].assigned = Append(@, "idle"),
                                   !.idle_recovery[tow_class(S, v)] =
                                       Append(@, v)],
                        "vehicle_returned", VehId(v), workshop_node)
    IN rec_top(S3, v))

\* lines 804-840: the hookup is done; choice of the workshop
rec_hooked(state, v) == Strict(state, LAMBDA S :
    LET b == S.vproc[v].request
        pickup == S.vproc[v].pickup
        S1 == log_event_details(
                  [S EXCEPT !.breakdowns[b].time_hookup_completed = S.now],
                  "hookup_completed", VehId(v), pickup, Ref(BdId(b)))
        workshop_node == find_nearest_workshop(S.scenario, pickup)
        S2 == log_event([S1 EXCEPT !.vehicles[v].state = "transiting_laden",
                                   !.vehicles[v].assigned =
                                       Append(@, "transiting_laden"),
                                   !.vproc[v].dest = workshop_node],
                        "vehicle_departed", VehId(v), pickup)
        travel_time == calculate_travel_time(S.scenario, pickup, workshop_node,
                                             S.scenario.vehicles[v].laden_kmh)
    IN IF workshop_node = NoNode
       THEN rec_top([S1 EXCEPT !.vehicles[v].state = "idle",
                               !.vehicles[v].assigned = Append(@, "idle"),
                               !.idle_recovery[tow_class(S, v)] = Append(@, v),
                               !.vproc[v].dest = NoNode], v)
       ELSE IF travel_time > 0
       THEN timeout([S2 EXCEPT !.vproc[v].pc = "to_workshop"], travel_time,
                    "vehicle", v)
       ELSE rec_arrive_workshop(S2, v))

recovery_process(state, v) == Strict(state, LAMBDA S :
    LET pc == S.vproc[v].pc
    IN CASE pc \in {"start", "top"} -> rec_top(S, v)
         [] pc = "to_pickup" -> rec_arrive_pickup(S, v)
         [] pc = "hookup" -> rec_hooked(S, v)
         [] pc = "to_workshop" -> rec_arrive_workshop(S, v)
         [] OTHER -> S)

----------------------------------------------------------------------------
(* _logistics_process of vehicle v, resumed at vproc[v].pc *)

ammo_capacity(vt) ==
    IF vt.ammo_capacity_units = None \/ vt.ammo_capacity_units = 0
    THEN DEFAULT_AMMO_CAPACITY ELSE vt.ammo_capacity_units

\* faulty variant: the vehicle is always filled up
quantity_loaded_full(quantity, capacity) == capacity

\* line 1014-1016: how much of the requested quantity the vehicle carries
quantity_loaded(quantity, capacity) == Min(quantity, capacity)

\* lines 992-1009: arrival at the ammo point, start of loading
lgs_arrive_ammo_point(state, v) == Strict(state, LAMBDA S :
    LET ammo_point == S.vproc[v].dest
        S1 == log_event([S EXCEPT !.vehicles[v].current_location = ammo_point],
                        "vehicle_arrived", VehId(v), ammo_point)
        S2 == log_event([S1 EXCEPT !.vehicles[v].state = "loading",
                                   !.vehicles[v].assigned =
                                       Append(@, "loading")],
                        "loading_started", VehId(v), ammo_point)
    IN timeout([S2 EXCEPT !.vproc[v].pc = "loading"],
               S.scenario.vehicles[v].load_time_mins, "vehicle", v))

\* faulty variant: the vehicle is not returned to the idle pool
lgs_stockout_stranded(S, v, a, delivery_location) ==
    log_event(S, "stockout", S.ammo_requests[a].id, delivery_location)

\* lines 956-966: no ammo point can be reached, the request is given up
lgs_stockout(state, v, a, delivery_location) == Strict(state, LAMBDA S :
    LET S1 == log_event(S, "stockout", S.ammo_requests[a].id,
                        delivery_location)
    IN [S1 EXCEPT !.idle_logistics = Append(@, v),
                  !.vehicles[v].state = "idle",
                  !.vehicles[v].assigned = Append(@, "idle")])

\* lines 934-990: the head of the loop, up to the travel to the ammo point
RECURSIVE lgs_top(_, _)
lgs_top(state, v) == Strict(state, LAMBDA S :
    IF S.ammo_queue = <<>>
    THEN timeout([S EXCEPT !.vproc[v].pc = "top"], POLL_MINS, "vehicle", v)
    ELSE IF ~In(v, S.idle_logistics)
    THEN timeout([S EXCEPT !.vproc[v].pc = "top"], POLL_MINS, "vehicle", v)
    ELSE LET popped == heappop(S.ammo_queue)
             request == popped.item
             a == request.ammo_request
             ammo_point == find_nearest_ammo_point(
                               S.scenario, S.vehicles[v].current_location)
             S1 == [S EXCEPT !.ammo_queue = popped.heap,
                             !.idle_logistics = Remove(v, @),
                             !.vehicles[v].state = "transiting_unladen",
                             !.vehicles[v].assigned =
                                 Append(@, "transiting_unladen"),
                             !.vproc[v].request = a,
                             !.vproc[v].pickup = request.location,
                             !.vproc[v].dest = ammo_point,
                             !.vproc[v].quantity = request.quantity]
             S2 == log_event_details(
                       [S1 EXCEPT !.ammo_requests[a].time_dispatched = S.now,
                                  !.ammo_requests[a].fulfilled_by = v],
                       "vehicle_dispatched", VehId(v),
                       S.vehicles[v].current_location, Ref(AmmoId(a)))
             travel_time == calculate_travel_time(
                                S.scenario, S.vehicles[v].current_location,
                                ammo_point, S.scenario.vehicles[v].unladen_kmh)
         IN IF ammo_point = NoNode
            THEN lgs_top(lgs_stockout(S1, v, a, request.location), v)
            ELSE IF travel_time > 0
            THEN timeout([S2 EXCEPT !.vproc[v].pc = "to_ammo_point"],
                         travel_time, "vehicle", v)
            ELSE lgs_arrive_ammo_point(S2, v))

\* lines 1046-1063: arrival at the delivery location, start of unloading
lgs_arrive_delivery(state, v) == Strict(state, LAMBDA S :
    LET delivery_location == S.vproc[v].pickup
        S1 == log_event([S EXCEPT !.vehicles[v].current_location =
                                      delivery_location],
                        "vehicle_arrived", VehId(v), delivery_location)
        S2 == log_event([S1 EXCEPT !.vehicles[v].state = "unloading",
                                   !.vehicles[v].assigned =
                                       Append(@, "unloading")],
                        "unloading_started", VehId(v), delivery_location)
    IN timeout([S2 EXCEPT !.vproc[v].pc = "unloading"],
               S.scenario.vehicles[v].unload_time_mins, "vehicle", v))

\* lines 1011-1044: the ammunition is loaded; departure
lgs_loaded(state, v) == Strict(state, LAMBDA S :
    LET a == S.vproc[v].request
        ammo_point == S.vproc[v].dest
        delivery_location == S.vproc[v].pickup
        qty == quantity_loaded(S.vproc[v].quantity,
                               ammo_capacity(S.scenario.vehicles[v]))
        S1 == log_event_details(
                  [S EXCEPT !.ammo_requests[a].time_loaded = S.now,
                            !.ammo_requests[a].loaded_from = ammo_point,
                            !.vproc[v].quantity_loaded = qty],
                  "ammo_loaded", VehId(v), ammo_point,
                  [NoDetails EXCEPT !.quantity = qty])
        S2 == log_event([S1 EXCEPT !.vehicles[v].state = "transiting_laden",
                                   !.vehicles[v].assigned =
                                       Append(@, "transiting_laden")],
                        "vehicle_departed", VehId(v), ammo_point)
        travel_time == calculate_travel_time(S.scenario, ammo_point,
                                             delivery_location,
                                             S.scenario.vehicles[v].laden_kmh)
    IN IF travel_time > 0
       THEN timeout([S2 EXCEPT !.vproc[v].pc = "to_delivery"], travel_time,
                    "vehicle", v)
       ELSE lgs_arrive_delivery(S2, v))

\* lines 1065-1093: delivery; the vehicle is idle again; the loop starts over
lgs_unloaded(state, v) == Strict(state, LAMBDA S :
    LET a == S.vproc[v].request
        delivery_location == S.vproc[v].pickup
        qty == S.vproc[v].quantity_loaded
        S1 == log_event_details(
                  [S EXCEPT !.ammo_requests[a].time_delivered = S.now,
                            !.ammo_requests[a].quantity_delivered = qty],
                  "ammo_delivered", S.ammo_requests[a].id, delivery_location,
                  [ref |-> VehId(v), event_subtype |-> "", quantity |-> qty])
        S2 == log_event([S1 EXCEPT !.vehicles[v].missions_completed = @ + 1,
                                   !.vehicles[v].state = "idle",
                                   !.vehicles[v].assigned = Append(@, "idle"),
                                   !.idle_logistics = Append(@, v)],
                        "vehicle_returned", VehId(v), delivery_location)
    IN lgs_top(S2, v))

logistics_process(state, v) == Strict(state, LAMBDA S :
    LET pc == S.vproc[v].pc
    IN CASE pc \in {"start", "top"} -> lgs_top(S, v)
         [] pc = "to_ammo_point" -> lgs_arrive_ammo_point(S, v)
         [] pc = "loading" -> lgs_loaded(S, v)
         [] pc = "to_delivery" -> lgs_arrive_delivery(S, v)
         [] pc = "unloading" -> lgs_unloaded(S, v)
         [] OTHER -> S)

----------------------------------------------------------------------------
(* Extended operations: the three per-vehicle modulators *)

NotOperational == {"crew_rest", "broken_down", "under_repair", "maintenance"}

\* _crew_fatigue_monitor, resumed at xproc[v].fatigue
crew_fatigue_monitor(state, v) == Strict(state, LAMBDA S :
    LET pc == S.xproc[v].fatigue
        max_ops_mins == S.scenario.vehicles[v].max_continuous_ops
        ops_time == S.now - S.vehicles[v].continuous_ops_start
        again(T) == timeout([T EXCEPT !.xproc[v].fatigue = "check"],
                            FATIGUE_CHECK_MINS, "fatigue", v)
    IN CASE pc = "start" -> again(S)
         [] pc = "check" /\ S.vehicles[v].state \in NotOperational ->
                again([S EXCEPT !.vehicles[v].continuous_ops_start = S.now])
         [] pc = "check" /\ S.vehicles[v].state = "idle" ->
                again([S EXCEPT !.vehicles[v].continuous_ops_start = S.now])
         [] pc = "check" /\ S.vehicles[v].state \notin NotOperational \cup {"idle"} ->
                IF ops_time >= max_ops_mins
                THEN timeout(
                         log_event(
                             remove_vehicle_from_service(
                                 [S EXCEPT !.vehicles[v].total_ops_time_mins =
                                               ops_time,
                                           !.vehicles[v].state = "crew_rest",
                                           !.vehicles[v].assigned =
                                               Append(@, "crew_rest"),
                                           !.xproc[v].fatigue = "resting"],
                                 v),
                             "crew_rest_started", VehId(v),
                             S.vehicles[v].current_location),
                         REST_DURATION_MINS, "fatigue", v)
                ELSE again([S EXCEPT !.vehicles[v].total_ops_time_mins =
                                         ops_time])
         [] pc = "resting" ->
                again(log_event(
                          return_vehicle_to_service(
                              [S EXCEPT !.vehicles[v].state = "idle",
                                        !.vehicles[v].assigned =
                                            Append(@, "idle"),
                                        !.vehicles[v].continuous_ops_start =
                                            S.now],
                              v),
                          "crew_rest_ended", VehId(v),
                          S.vehicles[v].current_location))
         [] OTHER -> S)

\* maintenance_interval_mins = (mtbf_hours or 200) * 60 * 0.8
mtbf_mins(vt) == IF vt.mtbf = None THEN DEFAULT_MTBF_HOURS * 60 ELSE vt.mtbf
maintenance_interval_mins(vt) == (mtbf_mins(vt) * 8) \div 10

\* the loop of _maintenance_scheduler from its head
maintenance_due(state, v) == Strict(state, LAMBDA S :
    IF S.vehicles[v].state # "idle"
    THEN timeout([S EXCEPT !.xproc[v].maintenance = "due"],
                 MAINTENANCE_WAIT_MINS, "maintenance", v)
    ELSE timeout(
             log_event_details(
                 remove_vehicle_from_service(
                     [S EXCEPT !.vehicles[v].state = "maintenance",
                               !.vehicles[v].assigned =
                                   Append(@, "maintenance"),
                               !.xproc[v].maintenance = "in_maintenance"],
                     v),
                 "shift_change", VehId(v), S.vehicles[v].current_location,
                 [NoDetails EXCEPT !.event_subtype = "maintenance_started"]),
             MAINTENANCE_DURATION_MINS, "maintenance", v))

\* _maintenance_scheduler, resumed at xproc[v].maintenance
maintenance_scheduler(state, v) == Strict(state, LAMBDA S :
    LET pc == S.xproc[v].maintenance
        interval == maintenance_interval_mins(S.scenario.vehicles[v])
    IN CASE pc = "start" ->
                IF S.vehicles[v].next_maintenance_time > 0
                THEN timeout([S EXCEPT !.xproc[v].maintenance = "due"],
                             S.vehicles[v].next_maintenance_time,
                             "maintenance", v)
                ELSE maintenance_due(S, v)
         [] pc = "due" -> maintenance_due(S, v)
         [] pc = "in_maintenance" ->
                LET S1 == log_event_details(
                              return_vehicle_to_service(
                                  [S EXCEPT !.vehicles[v].state = "idle",
                                            !.vehicles[v].assigned =
                                                Append(@, "idle")], v),
                              "shift_change", VehId(v),
                              S.vehicles[v].current_location,
                              [NoDetails EXCEPT !.event_subtype =
                                                    "maintenance_completed"])
                IN timeout([S1 EXCEPT !.vehicles[v].next_maintenance_time =
                                          S.now + interval,
                                      !.xproc[v].maintenance = "due"],
                           interval, "maintenance", v)
         [] OTHER -> S)

\* Priority.PRIORITY, the priority of a random breakdown
PRIORITY == 2

\* _breakdown_generator, resumed at xproc[v].breakdown, with the value
\* expovariate hands out for the next wait
breakdown_generator(state, v, time_to_breakdown) == Strict(state, LAMBDA S :
    LET pc == S.xproc[v].breakdown
        again(T) == timeout([T EXCEPT !.xproc[v].breakdown = "waiting"],
                            time_to_breakdown, "breakdown", v)
    IN CASE pc = "start" -> again(S)
         [] pc = "waiting" /\ S.vehicles[v].state \in NotOperational -> again(S)
         [] pc = "waiting" /\ S.vehicles[v].state \notin NotOperational ->
                again(generate_breakdown(S, v, S.vehicles[v].current_location,
                                         PRIORITY))
         [] OTHER -> S)

----------------------------------------------------------------------------
(* SimulationEngine._setup and run() up to env.run *)

TowClasses == {"light", "medium", "heavy"}

\* _create_resources: a Resource only `if capacity and capacity > 0`
node_capacity(node) ==
    CASE node.type \in {"medical_role1", "medical_role2"} ->
             node.treatment_slots
      [] node.type = "repair_workshop" -> node.repair_bays
      [] OTHER -> None
create_resources(sc) ==
    [node_id \in {sc.nodes[i].id : i \in {j \in 1..Len(sc.nodes) :
                                      /\ node_capacity(sc.nodes[j]) # None
                                      /\ node_capacity(sc.nodes[j]) # 0
                                      /\ node_capacity(sc.nodes[j]) > 0}} |->
        [capacity |-> node_capacity(get_node_by_id(sc, node_id)),
         users |-> <<>>, put_queue |-> <<>>]]

\* VehicleRuntime(vehicle, vehicle_type) after __post_init__; `assigned` is
\* the history of the step in progress: the values given to `state` since
\* the event was popped, in the order of the assignments
VehicleRuntime(vt) ==
    [state |-> vt.initial_state, current_location |-> vt.start_location,
     casualties_aboard |-> <<>>, missions_completed |-> 0,
     continuous_ops_start |-> 0, total_ops_time_mins |-> 0,
     next_maintenance_time |-> 0, assigned |-> <<>>]

\* the idle list a role keeps, in the order of scenario.vehicles
RECURSIVE IdleOf(_, _, _, _)
IdleOf(sc, role, class, i) ==
    IF i > Len(sc.vehicles) THEN <<>>
    ELSE LET vt == sc.vehicles[i]
             mine == /\ vt.initial_state = "idle"
                     /\ vt.role = role
                     /\ (role = "recovery" =>
                            class = IF vt.tow_capacity_class = "None"
                                    THEN "light" ELSE vt.tow_capacity_class)
         IN (IF mine THEN <<i>> ELSE <<>>) \o IdleOf(sc, role, class, i + 1)

\* _init_vehicles
init_vehicles(state) == Strict(state, LAMBDA S :
    LET sc == S.scenario
    IN [S EXCEPT !.vehicles = [v \in 1..Len(sc.vehicles) |->
                                  VehicleRuntime(sc.vehicles[v])],
                 !.idle_ambulances = IdleOf(sc, "ambulance", "", 1),
                 !.idle_recovery = [c \in TowClasses |->
                                       IdleOf(sc, "recovery", c, 1)],
                 !.idle_logistics = IdleOf(sc, "ammo_logistics", "", 1)])

\* env.process(...) for every id of ids[i..] that `starts` holds of
RECURSIVE start_processes(_, _, _, _)
start_processes(state, pk, ids, i) == Strict(state, LAMBDA S :
    IF i > Len(ids) THEN S
    ELSE start_processes(process(S, pk, ids[i]), pk, ids, i + 1))

RECURSIVE Filter(_, _, _)
Filter(n, keep(_), i) ==
    IF i > n THEN <<>>
    ELSE (IF keep(i) THEN <<i>> ELSE <<>>) \o Filter(n, keep, i + 1)

\* _start_demand_generators
start_demand_generators(state) == Strict(state, LAMBDA S :
    LET demand == S.scenario.demand
        all(i) == TRUE
    IN CASE demand.mode = "manual" ->
                process([S EXCEPT !.gproc.manual = 1], "manual", 0)
         [] demand.mode = "rate_based" ->
                start_processes(
                    [S EXCEPT !.gproc.rate = [g \in 1..Len(demand.rate_based)
                                                 |-> "start"]],
                    "rate", Filter(Len(demand.rate_based), all, 1), 1)
         [] OTHER -> S)

VehicleRoles == {"ambulance", "recovery", "ammo_logistics"}

\* _start_vehicle_processes
start_vehicle_processes(state) == Strict(state, LAMBDA S :
    LET sc == S.scenario
        has_process(v) == sc.vehicles[v].role \in VehicleRoles
    IN start_processes(
           [S EXCEPT !.vproc = [v \in 1..Len(sc.vehicles) |->
                                   [pc |-> IF has_process(v) THEN "start"
                                           ELSE "off",
                                    request |-> 0, pickup |-> NoNode,
                                    dest |-> NoNode, quantity |-> 0,
                                    quantity_loaded |-> 0]]],
           "vehicle", Filter(Len(sc.vehicles), has_process, 1), 1))

\* _start_extended_operations; offsets[v] is the value rng.uniform hands out
\* for the first maintenance of vehicle v
start_extended_operations(state, offsets) == Strict(state, LAMBDA S :
    LET sc == S.scenario
        n == Len(sc.vehicles)
        all(v) == TRUE
        scheduled(v) == sc.vehicles[v].mtbf # None /\ sc.vehicles[v].mtbf # 0
        fatigue == sc.config.enable_crew_fatigue
        maintenance(v) == sc.config.enable_vehicle_maintenance /\ scheduled(v)
        breakdown == sc.config.enable_breakdowns
        S0 == [S EXCEPT !.xproc =
                  [v \in 1..n |->
                      [fatigue |-> IF fatigue THEN "start" ELSE "off",
                       maintenance |-> IF maintenance(v) THEN "start"
                                       ELSE "off",
                       breakdown |-> IF breakdown THEN "start" ELSE "off"]],
               !.vehicles =
                  [v \in 1..n |->
                      IF maintenance(v)
                      THEN [S.vehicles[v] EXCEPT !.next_maintenance_time =
                                                     offsets[v]]
                      ELSE S.vehicles[v]]]
        S1 == IF fatigue
              THEN start_processes(S0, "fatigue", Filter(n, all, 1), 1)
              ELSE S0
        S2 == IF sc.config.enable_vehicle_maintenance
              THEN start_processes(S1, "maintenance",
                                   Filter(n, scheduled, 1), 1)
              ELSE S1
    IN IF breakdown
       THEN start_processes(S2, "breakdown", Filter(n, all, 1), 1)
       ELSE S2)

\* _setup
setup(state, offsets) == Strict(state, LAMBDA S :
    start_extended_operations(
        start_vehicle_processes(
            start_demand_generators(
                init_vehicles(
                    [S EXCEPT !.node_resources =
                                  create_resources(S.scenario)]))),
        offsets))

\* run() lines 140-156: _setup, the SIMULATION_STARTED event, and the
\* `until` event that env.run schedules, URGENT, at duration_mins
run_begin(state, offsets) == Strict(state, LAMBDA S :
    schedule(log_event(setup([S EXCEPT !.phase = "RUNNING"], offsets),
                       "simulation_started", SYSTEM, NoNode),
             SIMPY_URGENT, S.scenario.config.duration_mins, "until", 0))

\* faulty variant: the run ends without its closing event
run_end_unlogged(S) == [S EXCEPT !.phase = "ENDED"]

\* run() lines 158-167: env.run returns at the `until` event with
\* env.now = duration_mins; the SIMULATION_ENDED event; return
run_end(S) ==
    log_event([S EXCEPT !.phase = "ENDED"], "simulation_ended", SYSTEM, NoNode)

----------------------------------------------------------------------------
(* Scenarios: validated Scenario objects, as small parametric families *)

MaxEventTime == 1
MaxPriority == 2
MaxQuantity == 2
MaxSlots == 2
MaxBays == 1
MaxAmmoQuantity == 3
MaxCapacity == 2
DispatchDuration == 12
TreatmentDuration == 18
RecoveryDuration == 12
RepairDuration == 67
LogisticsDuration == 12
RateDuration == 8
ExtendedDuration == 17
MaintenanceRunDuration == 132
FatigueRunDuration == 500
LongMissionDuration == 80
\* the configured safety cap on the number of events
MaxEvents == 4

\* values the RNG may hand out: expovariate for the next rate-based arrival
\* and for the next breakdown, uniform for the first maintenance
IntervalDraws == {2, 3}
BreakdownDraws == {6, 40}
MaintenanceOffsets == {0, 3}

Node(id, type) ==
    [id |-> id, type |-> type, treatment_slots |-> None, repair_bays |-> None,
     treatment_time_mins |-> None]
Edge(a, b, km) ==
    [from_node |-> a, to_node |-> b, distance_km |-> km, terrain_factor |-> 1]

\* a Vehicle with the fields of its VehicleType that the engine reads
Vehicle(role, start_location) ==
    [role |-> role, vehicle_class |-> "light", tow_capacity_class |-> "None",
     unladen_kmh |-> 60, laden_kmh |-> 30, load_time_mins |-> 1,
     unload_time_mins |-> 1, hookup_time_mins |-> None,
     ammo_capacity_units |-> None, mtbf |-> None, max_continuous_ops |-> 720,
     start_location |-> start_location, initial_state |-> "idle"]
RecoveryVehicle(class, start_location) ==
    [Vehicle("recovery", start_location) EXCEPT
        !.tow_capacity_class = class, !.vehicle_class = class,
        !.hookup_time_mins = 2]
LogisticsVehicle(capacity, start_location) ==
    [Vehicle("ammo_logistics", start_location) EXCEPT
        !.ammo_capacity_units = capacity]

\* ManualDemandEvent
CasualtyEvent(time_mins, location, priority, quantity) ==
    [time_mins |-> time_mins, type |-> "casualty", location |-> location,
     quantity |-> quantity, priority |-> priority, vehicle_id |-> None]
BreakdownEvent(time_mins, location, priority, vehicle_id) ==
    [time_mins |-> time_mins, type |-> "vehicle_breakdown",
     location |-> location, quantity |-> 1, priority |-> priority,
     vehicle_id |-> vehicle_id]
AmmoEvent(time_mins, location, priority, quantity) ==
    [time_mins |-> time_mins, type |-> "ammo_request", location |-> location,
     quantity |-> quantity, priority |-> priority, vehicle_id |-> None]

\* SimulationConfig
Config(duration_mins) ==
    [duration_mins |-> duration_mins, enable_crew_fatigue |-> FALSE,
     enable_vehicle_maintenance |-> FALSE, enable_breakdowns |-> FALSE,
     max_events |-> MaxEvents]

ManualDemand(events) ==
    [mode |-> "manual", manual_events |-> events, rate_based |-> <<>>]
RateDemand(configs) ==
    [mode |-> "rate_based", manual_events |-> <<>>, rate_based |-> configs]

Medical(slots, treatment_time_mins) ==
    [Node("M", "medical_role1") EXCEPT
        !.treatment_slots = slots,
        !.treatment_time_mins = treatment_time_mins]
Workshop(bays) == [Node("W", "repair_workshop") EXCEPT !.repair_bays = bays]

Capacities(max) == {None} \cup 0..max

\* one ambulance, three casualty events: the dispatch queue at work
DispatchScenarios ==
    { [config |-> Config(DispatchDuration),
       nodes |-> <<Node("A", "combat"), Medical(None, 2)>>,
       edges |-> <<Edge("A", "M", 1)>>,
       vehicles |-> <<Vehicle("ambulance", "M")>>,
       demand |-> ManualDemand(
           <<CasualtyEvent(t[1], "A", p[1], q),
             CasualtyEvent(t[2], "A", p[2], 1),
             CasualtyEvent(t[3], "A", p[3], 1)>>)] :
      t \in [1..3 -> 0..MaxEventTime], p \in [1..3 -> 1..MaxPriority],
      q \in 1..MaxQuantity }

\* two ambulances, a medical facility of every capacity, slow treatment
TreatmentScenarios ==
    { [config |-> Config(TreatmentDuration),
       nodes |-> <<Node("A", "combat"), Medical(slots, 6)>>,
       edges |-> <<Edge("A", "M", 1)>>,
       vehicles |-> <<Vehicle("ambulance", "M"), Vehicle("ambulance", "M")>>,
       demand |-> ManualDemand(
           <<CasualtyEvent(0, "A", p[1], 1),
             CasualtyEvent(0, "A", p[2], 1),
             CasualtyEvent(t, "A", p[3], 1)>>)] :
      slots \in Capacities(MaxSlots), t \in 0..MaxEventTime,
      p \in [1..3 -> 1..MaxPriority] }

\* casualties where no medical facility can be reached, or from a place
\* that cannot be reached
StrandedScenariosOn(nodes) ==
    { [config |-> Config(DispatchDuration),
       nodes |-> nodes,
       edges |-> <<Edge("A", "B", 1)>>,
       vehicles |-> <<Vehicle("ambulance", "B")>>,
       demand |-> ManualDemand(
           <<CasualtyEvent(0, location, 1, 1),
             CasualtyEvent(1, "A", 2, 1)>>)] :
      location \in {"A", "B", nodes[3].id} }
StrandedScenarios ==
    StrandedScenariosOn(<<Node("A", "combat"), Node("B", "hq"),
                          Medical(1, 2)>>)
    \cup StrandedScenariosOn(<<Node("A", "combat"), Node("B", "hq"),
                               Node("X", "combat")>>)

\* a recovery vehicle and two vehicles that break down
\* (a node W of type "hq" gives a network without any workshop)
RecoveryScenariosOf(duration, tows, bays_set, type) ==
    { [config |-> Config(duration),
       nodes |-> <<Node("A", "combat"),
                   [Workshop(bays) EXCEPT !.type = type]>>,
       edges |-> <<Edge("A", "W", 1)>>,
       vehicles |-> <<RecoveryVehicle(tow, "W"),
                      [Vehicle("ambulance", "A") EXCEPT !.vehicle_class = c],
                      [Vehicle("general_logistics", "A") EXCEPT
                          !.vehicle_class = "medium"]>>,
       demand |-> ManualDemand(
           <<BreakdownEvent(0, "A", 2, 2),
             BreakdownEvent(t, "A", p, 3)>>)] :
      tow \in tows, bays \in bays_set, c \in {"light", "heavy"},
      t \in 0..MaxEventTime, p \in 1..MaxPriority }
RecoveryScenarios ==
    RecoveryScenariosOf(RecoveryDuration, TowClasses, Capacities(MaxBays),
                        "repair_workshop")
    \cup RecoveryScenariosOf(RecoveryDuration, TowClasses, {None}, "hq")
    \cup { sc \in RecoveryScenariosOf(RepairDuration, {"heavy"}, {MaxBays},
                                      "repair_workshop") :
             /\ sc.vehicles[2].vehicle_class = "heavy"
             /\ sc.demand.manual_events[2].time_mins = 0 }

\* a light and a heavy recovery vehicle, and two vehicles that break down
TowFleetScenarios ==
    { [config |-> Config(RecoveryDuration),
       nodes |-> <<Node("A", "combat"), Workshop(MaxBays)>>,
       edges |-> <<Edge("A", "W", 1)>>,
       vehicles |-> <<RecoveryVehicle("light", "W"),
                      [Vehicle("ambulance", "A") EXCEPT !.vehicle_class = c],
                      [Vehicle("general_logistics", "A") EXCEPT
                          !.vehicle_class = "medium"],
                      RecoveryVehicle("heavy", "W")>>,
       demand |-> ManualDemand(
           <<BreakdownEvent(0, "A", 2, 2),
             BreakdownEvent(t, "A", p, 3)>>)] :
      c \in {"light", "heavy"}, t \in 0..MaxEventTime, p \in 1..MaxPriority }

\* a logistics vehicle and two ammunition requests, with or without an
\* ammo point
LogisticsScenarios ==
    { [config |-> Config(LogisticsDuration),
       nodes |-> nodes,
       edges |-> <<Edge("A", "P", 1)>>,
       vehicles |-> <<LogisticsVehicle(capacity, "P")>>,
       demand |-> ManualDemand(
           <<AmmoEvent(0, "A", 2, q[1]), AmmoEvent(t, "A", p, q[2])>>)] :
      nodes \in {<<Node("A", "combat"), Node("P", "ammo_point")>>,
                 <<Node("A", "combat"), Node("P", "hq")>>},
      capacity \in 1..MaxCapacity, q \in [1..2 -> 1..MaxAmmoQuantity],
      t \in 0..MaxEventTime, p \in 1..MaxPriority }

\* RateBasedDemand
RateConfig(type, active_from_mins, active_until_mins) ==
    [type |-> type, location |-> "A", active_from_mins |-> active_from_mins,
     active_until_mins |-> active_until_mins, min_quantity |-> 1,
     max_quantity |-> MaxQuantity, priorities |-> 1..MaxPriority]

RateScenarios ==
    { [config |-> Config(RateDuration),
       nodes |-> <<Node("A", "combat"), Medical(1, 2)>>,
       edges |-> <<Edge("A", "M", 1)>>,
       vehicles |-> <<Vehicle("ambulance", "M")>>,
       demand |-> RateDemand(<<RateConfig(type, from, until)>>)] :
      type \in {"casualty", "ammo_request"}, from \in {0, 2},
      until \in {None, 5} }

\* the extended operations switched on
ExtendedScenarios ==
    { [config |-> [Config(ExtendedDuration) EXCEPT
                      !.enable_crew_fatigue = flags[1],
                      !.enable_vehicle_maintenance = flags[2],
                      !.enable_breakdowns = flags[3]],
       nodes |-> <<Node("A", "combat"), Medical(1, 2), Workshop(1)>>,
       edges |-> <<Edge("A", "M", 5), Edge("A", "W", 1)>>,
       vehicles |-> <<[Vehicle("ambulance", "M") EXCEPT
                          !.mtbf = 300, !.max_continuous_ops = 6],
                      RecoveryVehicle("light", "W")>>,
       demand |-> ManualDemand(<<CasualtyEvent(t, "A", 1, 1)>>)] :
      flags \in [1..3 -> BOOLEAN], t \in {0, 4} }

\* an ambulance that starts at a base away from the medical facility
HomeBaseScenarios ==
    { [config |-> Config(DispatchDuration),
       nodes |-> <<Node("A", "combat"), Node("B", "hq"), Medical(slots, 6)>>,
       edges |-> <<Edge("B", "A", 1), Edge("A", "M", 1)>>,
       vehicles |-> <<Vehicle("ambulance", "B")>>,
       demand |-> ManualDemand(
           <<CasualtyEvent(0, "A", p[1], 1),
             CasualtyEvent(t, "A", p[2], 1)>>)] :
      slots \in {None, 1}, t \in 0..MaxEventTime,
      p \in [1..2 -> 1..MaxPriority] }

\* scheduled maintenance alone, over a run that outlasts one maintenance
\* window; in the last scenario the ambulance also breaks down at t = 1
MaintenanceScenarios ==
    { [config |-> [Config(MaintenanceRunDuration) EXCEPT
                      !.enable_vehicle_maintenance = TRUE],
       nodes |-> <<Node("A", "combat"), Medical(1, 2), Workshop(1)>>,
       edges |-> <<Edge("A", "M", 1), Edge("M", "W", 1)>>,
       vehicles |-> <<[Vehicle("ambulance", "M") EXCEPT !.mtbf = 300],
                      RecoveryVehicle("light", "W")>>,
       demand |-> ManualDemand(events)] :
      events \in {<<CasualtyEvent(0, "A", 1, 1)>>,
                  <<CasualtyEvent(4, "A", 1, 1)>>,
                  <<BreakdownEvent(1, "M", 2, 1),
                    CasualtyEvent(4, "A", 1, 1)>>} }

\* crew fatigue alone, over a run that outlasts one rest; the ambulance may
\* operate for 12 minutes without a break
FatigueScenarios ==
    { [config |-> [Config(FatigueRunDuration) EXCEPT
                      !.enable_crew_fatigue = TRUE],
       nodes |-> <<Node("A", "combat"), Medical(1, 2)>>,
       edges |-> <<Edge("A", "M", 5)>>,
       vehicles |-> <<[Vehicle("ambulance", "M") EXCEPT
                          !.max_continuous_ops = 12]>>,
       demand |-> ManualDemand(<<CasualtyEvent(t, "A", 1, 1)>>)] :
      t \in {0, 4} }

\* a breakdown of the ambulance on a mission that outlasts its recovery and
\* repair, or of the only recovery vehicle
LongMissionScenarios ==
    { [config |-> Config(LongMissionDuration),
       nodes |-> <<Node("A", "combat"), Medical(1, 2), Workshop(MaxBays)>>,
       edges |-> <<Edge("A", "M", 25), Edge("A", "W", 1)>>,
       vehicles |-> <<Vehicle("ambulance", "M"),
                      RecoveryVehicle("light", "W")>>,
       demand |-> ManualDemand(<<CasualtyEvent(0, "A", 1, 1),
                                 BreakdownEvent(1, "A", 1, v)>>)] :
      v \in 1..2 }

Scenarios ==
    DispatchScenarios \cup TreatmentScenarios \cup StrandedScenarios
    \cup RecoveryScenarios \cup LogisticsScenarios \cup RateScenarios
    \cup ExtendedScenarios \cup HomeBaseScenarios \cup MaintenanceScenarios
    \cup TowFleetScenarios \cup FatigueScenarios \cup LongMissionScenarios

----------------------------------------------------------------------------
(* The state machine *)

\* the engine after __init__, for a scenario that passed validation
\* no query has been made
NoCall == [op |-> "none"]

\* SimulationEngine.__init__: nothing is built before run()
EngineCreated ==
    /\ phase = "UNINITIALIZED"
    /\ now = 0
    /\ eid = 0
    /\ queue = {}
    /\ log = <<>>
    /\ counters = [casualty |-> 0, breakdown |-> 0, ammo_request |-> 0]
    /\ casualties = <<>>
    /\ breakdowns = <<>>
    /\ ammo_requests = <<>>
    /\ casualty_queue = <<>>
    /\ recovery_queue = <<>>
    /\ ammo_queue = <<>>
    /\ vehicles = <<>>
    /\ idle_ambulances = <<>>
    /\ idle_recovery = [c \in TowClasses |-> <<>>]
    /\ idle_logistics = <<>>
    /\ node_resources = <<>>
    /\ vproc = <<>>
    /\ tproc = <<>>
    /\ rproc = <<>>
    /\ gproc = [manual |-> 0, rate |-> <<>>]
    /\ xproc = <<>>

Init ==
    /\ scenario \in Scenarios
    /\ call = NoCall
    /\ EngineCreated

\* the event env.step() pops next is one of process kind pk
Resumes(pk) == phase = "RUNNING" /\ NextEvent(queue).pk = pk
RoleResumes(role) ==
    /\ Resumes("vehicle")
    /\ scenario.vehicles[NextEvent(queue).id].role = role

\* run() up to the call of env.run
Setup ==
    /\ phase = "UNINITIALIZED"
    /\ \E offsets \in [1..Len(scenario.vehicles) -> MaintenanceOffsets] :
           Commit(run_begin(St, offsets))

ManualDemandStep ==
    /\ Resumes("manual")
    /\ Commit(manual_demand_generator(Popped(St), gproc.manual))

RateBasedStep ==
    /\ Resumes("rate")
    /\ LET g == NextEvent(queue).id
           config == scenario.demand.rate_based[g]
       IN \E interval \in IntervalDraws, priority \in config.priorities,
             qty \in config.min_quantity..config.max_quantity :
              Commit(rate_based_generator(Popped(St), g, interval, priority,
                                          qty))

AmbulanceStep ==
    /\ RoleResumes("ambulance")
    /\ Commit(ambulance_process(Popped(St), NextEvent(queue).id))

RecoveryStep ==
    /\ RoleResumes("recovery")
    /\ Commit(recovery_process(Popped(St), NextEvent(queue).id))

LogisticsStep ==
    /\ RoleResumes("ammo_logistics")
    /\ Commit(logistics_process(Popped(St), NextEvent(queue).id))

TreatmentStep ==
    /\ Resumes("treatment")
    /\ Commit(treatment_process(Popped(St), NextEvent(queue).id))

RepairStep ==
    /\ Resumes("repair")
    /\ Commit(repair_process(Popped(St), NextEvent(queue).id))

\* a Release event is processed: its callback is _trigger_put
ReleaseStep ==
    /\ Resumes("release")
    /\ Commit(trigger_put(Popped(St),
                          scenario.nodes[NextEvent(queue).id].id))

FatigueStep ==
    /\ Resumes("fatigue")
    /\ Commit(crew_fatigue_monitor(Popped(St), NextEvent(queue).id))

MaintenanceStep ==
    /\ Resumes("maintenance")
    /\ Commit(maintenance_scheduler(Popped(St), NextEvent(queue).id))

BreakdownStep ==
    /\ Resumes("breakdown")
    /\ \E time_to_breakdown \in BreakdownDraws :
           Commit(breakdown_generator(Popped(St), NextEvent(queue).id,
                                      time_to_breakdown))

\* the `until` event: env.run returns and run() finishes
EndRun ==
    /\ Resumes("until")
    /\ Commit(run_end(Popped(St)))

Next ==
    \/ Setup
    \/ ManualDemandStep
    \/ RateBasedStep
    \/ AmbulanceStep
    \/ RecoveryStep
    \/ LogisticsStep
    \/ TreatmentStep
    \/ RepairStep
    \/ ReleaseStep
    \/ FatigueStep
    \/ MaintenanceStep
    \/ BreakdownStep
    \/ EndRun

Spec == Init /\ [][Next]_vars

\* env.run processes events as long as there are any: every step that is
\* enabled is taken
LiveSpec == Init /\ [][Next]_vars /\ WF_vars(Next)

\* the runs of the fleets with recovery vehicles, where every step that is
\* enabled is taken
RecoveryInit ==
    /\ scenario \in RecoveryScenarios \cup TowFleetScenarios
    /\ call = NoCall
    /\ EngineCreated

RecoveryNext ==
    \/ Setup
    \/ ManualDemandStep
    \/ AmbulanceStep
    \/ RecoveryStep
    \/ RepairStep
    \/ ReleaseStep
    \/ EndRun

RecoveryLiveSpec ==
    RecoveryInit /\ [][RecoveryNext]_vars /\ WF_vars(RecoveryNext)

----------------------------------------------------------------------------
(* The routing service on its own: a network is drawn and one query is put *)
(* to it                                                                    *)

MaxRoads == 3
MaxKm == 2
TerrainFactors == {1, 2}
Speeds == {30, 60}

\* the edges a network may list; several may join the same two nodes
Roads ==
    { [Edge(ends[1], ends[2], km) EXCEPT !.terrain_factor = terrain_factor] :
        ends \in {<<"A", "B">>, <<"B", "C">>, <<"C", "A">>, <<"C", "D">>},
        km \in 1..MaxKm, terrain_factor \in TerrainFactors }

\* the node lists: two medical facilities listed against the alphabet, or
\* two workshops and two ammo points
NodeLayouts ==
    { <<Node("A", "combat"), Node("C", "medical_role2"),
        Node("B", "medical_role1"), Node("D", "repair_workshop")>>,
      <<Node("A", "ammo_point"), Node("B", "repair_workshop"),
        Node("C", "repair_workshop"), Node("D", "ammo_point")>> }

Networks ==
    { [nodes |-> nodes, edges |-> edges] :
        nodes \in NodeLayouts,
        edges \in UNION {[1..n -> Roads] : n \in 1..MaxRoads} }

engine_vars == <<scenario, phase, now, eid, queue, log, counters, casualties,
                 breakdowns, ammo_requests, casualty_queue, recovery_queue,
                 ammo_queue, vehicles, idle_ambulances, idle_recovery,
                 idle_logistics, node_resources, vproc, tproc, rproc, gproc,
                 xproc>>

RoutingInit ==
    /\ scenario \in Networks
    /\ call = NoCall
    /\ EngineCreated

TravelTimeQuery ==
    /\ call = NoCall
    /\ \E from_node \in NodeIds(scenario), to_node \in NodeIds(scenario),
          speed_kmh \in Speeds :
           call' = [op |-> "calculate_travel_time", from_node |-> from_node,
                    to_node |-> to_node, speed_kmh |-> speed_kmh,
                    minutes |-> calculate_travel_time(scenario, from_node,
                                                      to_node, speed_kmh)]
    /\ UNCHANGED engine_vars

NearestMedicalQuery ==
    /\ call = NoCall
    /\ \E from_node \in NodeIds(scenario) :
           call' = [op |-> "find_nearest_medical", from_node |-> from_node,
                    node |-> find_nearest_medical(scenario, from_node)]
    /\ UNCHANGED engine_vars

NearestWorkshopQuery ==
    /\ call = NoCall
    /\ \E from_node \in NodeIds(scenario) :
           call' = [op |-> "find_nearest_workshop", from_node |-> from_node,
                    node |-> find_nearest_workshop(scenario, from_node)]
    /\ UNCHANGED engine_vars

NearestAmmoPointQuery ==
    /\ call = NoCall
    /\ \E from_node \in NodeIds(scenario) :
           call' = [op |-> "find_nearest_ammo_point", from_node |-> from_node,
                    node |-> find_nearest_ammo_point(scenario, from_node)]
    /\ UNCHANGED engine_vars

RoutingNext ==
    \/ TravelTimeQuery
    \/ NearestMedicalQuery
    \/ NearestWorkshopQuery
    \/ NearestAmmoPointQuery

RoutingSpec == RoutingInit /\ [][RoutingNext]_vars

----------------------------------------------------------------------------
(* Scenario.validate_all_references, applied to scenario documents *)

\* bound on the number of edges, of vehicles and of demand events of a
\* scenario document
MaxItems == 2

\* what a document may refer to; X, Y and tank name no node and no type
\* the ends of an edge: resolved, with an unknown end, from a node to itself
EdgeEnds ==
    {<<"A", "B">>, <<"A", "X">>, <<"X", "B">>, <<"A", "A">>, <<"X", "X">>}
DemandIds == {"A", "X", "Y"}
TypeIds == {"amb", "tank"}

SeqsUpTo(S, n) == UNION {[1..k -> S] : k \in 1..n}

\* a scenario document whose fields are well-formed, before the references
\* between them are checked
Document(ends, refs, locations) ==
    [nodes |-> <<Node("A", "combat"), Node("B", "medical_role1")>>,
     edges |-> [i \in DOMAIN ends |->
                   [from_node |-> ends[i][1], to_node |-> ends[i][2]]],
     vehicle_types |-> <<[id |-> "amb"]>>,
     vehicles |-> [j \in DOMAIN refs |->
                      [id |-> <<"v", j>>, type_id |-> refs[j][1],
                       start_location |-> refs[j][2]]],
     demand |-> [mode |-> "manual",
                 manual_events |-> [k \in DOMAIN locations |->
                                       [location |-> locations[k]]],
                 rate_based |-> <<>>]]

\* DemandConfiguration.get_all_locations
get_all_locations(demand) ==
    {demand.manual_events[k].location : k \in DOMAIN demand.manual_events}
    \cup {demand.rate_based[k].location : k \in DOMAIN demand.rate_based}

\* the orders in which the elements of set S may be iterated
Orderings(S) ==
    {order \in [1..Cardinality(S) -> S] :
        \A i, j \in DOMAIN order : i # j => order[i] # order[j]}

\* lines 145-157: the entries for edges i..Len(edges)
RECURSIVE edge_errors(_, _, _)
edge_errors(edges, node_ids, i) ==
    IF i > Len(edges) THEN <<>>
    ELSE (IF edges[i].from_node \notin node_ids
          THEN <<[problem |-> "unknown source node", edge |-> i,
                  ref |-> edges[i].from_node]>>
          ELSE <<>>)
         \o (IF edges[i].to_node \notin node_ids
             THEN <<[problem |-> "unknown destination node", edge |-> i,
                     ref |-> edges[i].to_node]>>
             ELSE <<>>)
         \o (IF edges[i].from_node = edges[i].to_node
             THEN <<[problem |-> "self-loop", edge |-> i,
                     ref |-> edges[i].from_node]>>
             ELSE <<>>)
         \o edge_errors(edges, node_ids, i + 1)

\* lines 160-168: the entries for vehicles j..Len(fleet) of the list
RECURSIVE vehicle_errors(_, _, _, _)
vehicle_errors(fleet, vehicle_type_ids, node_ids, j) ==
    IF j > Len(fleet) THEN <<>>
    ELSE (IF fleet[j].type_id \notin vehicle_type_ids
          THEN <<[problem |-> "unknown type", vehicle |-> fleet[j].id,
                  ref |-> fleet[j].type_id]>>
          ELSE <<>>)
         \o (IF fleet[j].start_location \notin node_ids
             THEN <<[problem |-> "unknown start node",
                     vehicle |-> fleet[j].id,
                     ref |-> fleet[j].start_location]>>
             ELSE <<>>)
         \o vehicle_errors(fleet, vehicle_type_ids, node_ids, j + 1)

\* lines 171-176: the entries for demand locations k..Len(demand_locations)
RECURSIVE demand_errors(_, _, _)
demand_errors(demand_locations, node_ids, k) ==
    IF k > Len(demand_locations) THEN <<>>
    ELSE (IF demand_locations[k] \notin node_ids
          THEN <<[problem |-> "demand at unknown node",
                  ref |-> demand_locations[k]]>>
          ELSE <<>>)
         \o demand_errors(demand_locations, node_ids, k + 1)

\* faulty variant: the validation stops at the first violation
validate_first_reference(sc, demand_locations) ==
    LET node_ids == NodeIds(sc)
        vehicle_type_ids ==
            {sc.vehicle_types[t].id : t \in DOMAIN sc.vehicle_types}
        errors == edge_errors(sc.edges, node_ids, 1)
                  \o vehicle_errors(sc.vehicles, vehicle_type_ids, node_ids, 1)
                  \o demand_errors(demand_locations, node_ids, 1)
    IN IF errors = <<>> THEN <<>> ELSE <<errors[1]>>

\* lines 135-185: the list of violations, with the demand locations in the
\* order in which their set is iterated; the ValueError is raised when the
\* list is not empty
validate_all_references(sc, demand_locations) ==
    LET node_ids == NodeIds(sc)
        vehicle_type_ids ==
            {sc.vehicle_types[t].id : t \in DOMAIN sc.vehicle_types}
    IN edge_errors(sc.edges, node_ids, 1)
       \o vehicle_errors(sc.vehicles, vehicle_type_ids, node_ids, 1)
       \o demand_errors(demand_locations, node_ids, 1)

ValidationInit ==
    /\ \E ends \in SeqsUpTo(EdgeEnds, MaxItems),
          refs \in SeqsUpTo(TypeIds \X {"A", "X"}, MaxItems),
          locations \in SeqsUpTo(DemandIds, MaxItems) :
           scenario = Document(ends, refs, locations)
    /\ call = NoCall
    /\ EngineCreated

\* Scenario(...) runs the validator: the document is accepted, or rejected
\* with one ValueError that carries the list
ValidateScenario ==
    /\ call = NoCall
    /\ \E demand_locations \in Orderings(get_all_locations(scenario.demand)) :
           LET errors == validate_all_references(scenario, demand_locations)
           IN call' = [op |-> "validate_all_references",
                       raised |-> errors # <<>>, errors |-> errors]
    /\ UNCHANGED engine_vars

ValidationNext == ValidateScenario

ValidationSpec == ValidationInit /\ [][ValidationNext]_vars

----------------------------------------------------------------------------
(* Properties *)

\* the events this step appends to the log
NewLog == SubSeq(log', Len(log) + 1, Len(log'))

\* an event that records the pop of a request from a dispatch queue: the
\* dispatch of the vehicle to it, or (ammunition only) the stockout
IsCasualtyPop(e) ==
    e.event_type = "vehicle_dispatched" /\ e.details.ref.prefix = "CAS_"
IsAmmoPop(e) ==
    \/ e.event_type = "vehicle_dispatched" /\ e.details.ref.prefix = "AMMO_"
    \/ e.event_type = "stockout"
PopNumber(e) ==
    IF e.event_type = "stockout" THEN e.entity_id.number
    ELSE e.details.ref.number

QueuedCasualties(q) == {q[i].casualty : i \in 1..Len(q)}
QueuedAmmo(q) == {q[i].ammo_request : i \in 1..Len(q)}

\* the requests of queue q that wait when the k-th new event pops one
WaitingAt(q, k, IsPop(_), Number(_)) ==
    {i \in 1..Len(q) :
        \A j \in 1..(k-1) :
            ~(IsPop(NewLog[j]) /\ PopNumber(NewLog[j]) = Number(q[i]))}
CasualtyOf(request) == request.casualty
AmmoRequestOf(request) == request.ammo_request

\* C1: whenever an ambulance or a logistics vehicle pops a request from its
\* dispatch queue, the priority value of the popped request is at most that
\* of every request waiting in the queue at that instant.  (A request leaves
\* these queues only by such a pop.)
PopTakesLowestPriorityValue ==
    [][ /\ \A k \in 1..Len(NewLog) :
              IsCasualtyPop(NewLog[k]) =>
                  /\ PopNumber(NewLog[k]) \in QueuedCasualties(casualty_queue)
                  /\ PopNumber(NewLog[k]) \notin
                         QueuedCasualties(casualty_queue')
                  /\ \A i \in WaitingAt(casualty_queue, k, IsCasualtyPop,
                                        CasualtyOf) :
                         casualties[PopNumber(NewLog[k])].priority
                             <= casualty_queue[i].priority
        /\ \A k \in 1..Len(NewLog) :
              IsAmmoPop(NewLog[k]) =>
                  /\ PopNumber(NewLog[k]) \in QueuedAmmo(ammo_queue)
                  /\ PopNumber(NewLog[k]) \notin QueuedAmmo(ammo_queue')
                  /\ \A i \in WaitingAt(ammo_queue, k, IsAmmoPop,
                                        AmmoRequestOf) :
                         ammo_requests[PopNumber(NewLog[k])].priority
                             <= ammo_queue[i].priority
        /\ \A c \in QueuedCasualties(casualty_queue)
                        \ QueuedCasualties(casualty_queue') :
              \E k \in 1..Len(NewLog) :
                  IsCasualtyPop(NewLog[k]) /\ PopNumber(NewLog[k]) = c
        /\ \A a \in QueuedAmmo(ammo_queue) \ QueuedAmmo(ammo_queue') :
              \E k \in 1..Len(NewLog) :
                  IsAmmoPop(NewLog[k]) /\ PopNumber(NewLog[k]) = a
      ]_vars

\* a casualty was dispatched ahead of one generated before it that has a
\* greater priority value and still waits
UrgentCasualtyOvertook ==
    \E c \in DOMAIN casualties, i \in 1..Len(casualty_queue) :
        /\ c \notin QueuedCasualties(casualty_queue)
        /\ casualty_queue[i].casualty < c
        /\ casualties[c].priority < casualty_queue[i].priority

\* C2: within equal priority a dispatch queue is strictly FIFO: no request
\* has been popped while a request of the same priority that was inserted
\* before it is still in the queue.  (Requests are inserted in the order of
\* their entity numbers, and leave the queue only by a pop.)
StrictFIFOWithinPriority ==
    /\ \A c \in DOMAIN casualties \ QueuedCasualties(casualty_queue) :
           \A i \in 1..Len(casualty_queue) :
               casualty_queue[i].priority = casualties[c].priority
                   => c < casualty_queue[i].casualty
    /\ \A a \in DOMAIN ammo_requests \ QueuedAmmo(ammo_queue) :
           \A i \in 1..Len(ammo_queue) :
               ammo_queue[i].priority = ammo_requests[a].priority
                   => a < ammo_queue[i].ammo_request

\* C3: for every breakdown a recovery vehicle was dispatched to, the class
\* of the broken-down vehicle is not strictly heavier than the tow-capacity
\* class of that recovery vehicle (light < medium < heavy)
TowClassSuffices ==
    \A b \in DOMAIN breakdowns :
        breakdowns[b].recovered_by # None =>
            class_order(breakdowns[b].vehicle_class) <=
                class_order(scenario.vehicles[breakdowns[b].recovered_by]
                                .tow_capacity_class)

\* a recovery vehicle was dispatched to a breakdown it can tow, past an
\* earlier breakdown that is too heavy for it
RecoverySkippedHeavier ==
    \E b1, b2 \in DOMAIN breakdowns :
        /\ b1 < b2
        /\ breakdowns[b1].recovered_by = None
        /\ breakdowns[b2].recovered_by # None
        /\ class_order(breakdowns[b1].vehicle_class) >
               class_order(scenario.vehicles[breakdowns[b2].recovered_by]
                               .tow_capacity_class)

\* a <= b for the timestamps that are set
Ordered(a, b) == (a # None /\ b # None) => a <= b

\* C4: for every casualty the timestamps that are set are in the order
\* generated <= collected <= delivered <= treatment started <= treatment
\* completed, and time_delivered is set only if time_collected is
CasualtyTimestampsOrdered ==
    \A c \in DOMAIN casualties :
        LET t == <<casualties[c].time_generated, casualties[c].time_collected,
                   casualties[c].time_delivered,
                   casualties[c].time_treatment_started,
                   casualties[c].time_treatment_completed>>
        IN /\ \A i, j \in 1..5 : i < j => Ordered(t[i], t[j])
           /\ t[3] # None => t[2] # None

\* a casualty went through every stage
CasualtyFullyTreated ==
    \E c \in DOMAIN casualties :
        /\ casualties[c].time_collected # None
        /\ casualties[c].time_delivered # None
        /\ casualties[c].time_treatment_started # None
        /\ casualties[c].time_treatment_completed # None
        /\ casualties[c].time_generated < casualties[c].time_collected

\* C5: for every ammo request 0 <= quantity_delivered <= quantity_requested,
\* and is_fulfilled holds exactly when quantity_delivered >=
\* quantity_requested
AmmoDeliveredWithinRequested ==
    \A a \in DOMAIN ammo_requests :
        /\ 0 <= ammo_requests[a].quantity_delivered
        /\ ammo_requests[a].quantity_delivered
               <= ammo_requests[a].quantity_requested
        /\ is_fulfilled(ammo_requests[a])
               <=> ammo_requests[a].quantity_delivered
                       >= ammo_requests[a].quantity_requested

\* one request was delivered short of the requested quantity (the vehicle
\* is too small) and another one in full
AmmoDeliveredShortAndFull ==
    \E a1, a2 \in DOMAIN ammo_requests :
        /\ ammo_requests[a1].time_delivered # None
        /\ ammo_requests[a1].quantity_delivered > 0
        /\ ~is_fulfilled(ammo_requests[a1])
        /\ ammo_requests[a2].time_delivered # None
        /\ is_fulfilled(ammo_requests[a2])

\* the casualties in treatment at a node: started and not completed
InTreatment(node_id) ==
    {c \in DOMAIN casualties :
        /\ casualties[c].delivered_to = node_id
        /\ casualties[c].time_treatment_started # None
        /\ casualties[c].time_treatment_completed = None}
\* the breakdowns in repair at a node
InRepair(node_id) ==
    {b \in DOMAIN breakdowns :
        /\ breakdowns[b].repaired_at = node_id
        /\ breakdowns[b].time_repair_started # None
        /\ breakdowns[b].time_repair_completed = None}

\* C6: at every instant, at each medical node with a configured
\* treatment_slots capacity (each workshop with a configured repair_bays
\* capacity) the number of casualties in treatment (breakdowns in repair)
\* is at most that capacity
WithinConfiguredCapacity ==
    \A i \in 1..Len(scenario.nodes) :
        LET node == scenario.nodes[i]
        IN /\ (/\ node.type \in {"medical_role1", "medical_role2"}
               /\ node.treatment_slots # None)
                  => Cardinality(InTreatment(node.id)) <= node.treatment_slots
           /\ (node.type = "repair_workshop" /\ node.repair_bays # None)
                  => Cardinality(InRepair(node.id)) <= node.repair_bays

\* a node of capacity one or more is full while a further arrival waits for
\* a slot and the vehicle that brought it is on its next mission
ArrivalWaitsAtFullNode ==
    \E node_id \in DOMAIN node_resources :
        /\ Len(node_resources[node_id].users)
               = node_resources[node_id].capacity
        /\ node_resources[node_id].put_queue # <<>>
        /\ \E v \in DOMAIN vehicles :
               vehicles[v].state \notin {"idle", "unloading"}
                   /\ vehicles[v].missions_completed > 0

\* position in the log of the first event of that type about that entity
\* (0: there is none)
LogIndex(event_type, entity_id) ==
    LET idx == {i \in 1..Len(log) : /\ log[i].event_type = event_type
                                    /\ log[i].entity_id = entity_id}
    IN IF idx = {} THEN 0 ELSE CHOOSE i \in idx : \A j \in idx : i <= j

DeliveredBefore(c, d) ==
    /\ LogIndex("casualty_delivered", CasId(c)) > 0
    /\ LogIndex("casualty_delivered", CasId(c))
           < LogIndex("casualty_delivered", CasId(d))

\* C7: at a capacity-limited medical node casualties get their treatment
\* slots in the order of their delivery to the node, whatever their
\* priority; with one slot, the treatment of a casualty starts no earlier
\* than the treatment of the casualty before it was completed
TreatmentInDeliveryOrder ==
    \A c, d \in DOMAIN casualties :
        (/\ casualties[c].delivered_to = casualties[d].delivered_to
         /\ casualties[c].delivered_to \in DOMAIN node_resources
         /\ DeliveredBefore(c, d)
         /\ casualties[d].time_treatment_started # None)
        => /\ casualties[c].time_treatment_started # None
           /\ LogIndex("treatment_started", CasId(c))
                  < LogIndex("treatment_started", CasId(d))
           /\ node_resources[casualties[c].delivered_to].capacity = 1
                  => /\ casualties[c].time_treatment_completed # None
                     /\ casualties[d].time_treatment_started
                            >= casualties[c].time_treatment_completed

\* two casualties waited for the one slot together, the more urgent one
\* delivered later, and both were treated
UrgentCasualtyWaitedItsTurn ==
    \E c, d \in DOMAIN casualties :
        /\ casualties[c].delivered_to = casualties[d].delivered_to
        /\ casualties[c].delivered_to \in DOMAIN node_resources
        /\ node_resources[casualties[c].delivered_to].capacity = 1
        /\ DeliveredBefore(c, d)
        /\ casualties[d].priority < casualties[c].priority
        /\ casualties[d].time_treatment_started # None
        /\ casualties[d].time_delivered < casualties[c].time_treatment_started

\* C9: for every validated scenario run() terminates and returns the log:
\* nothing raises, and the clock reaches the configured duration, whatever
\* is unreachable, missing or saturated and whatever the modulators do
RunTerminates ==
    /\ [](phase # "RAISED")
    /\ <>[](phase = "ENDED" /\ now = scenario.config.duration_mins)

\* the run has ended although a vehicle travels to a place it can never
\* reach and a casualty is left without any medical facility
RunEndedWithStrandedEntities ==
    /\ phase = "ENDED"
    /\ \/ \E e \in queue : e.time = Inf
       \/ \E v \in DOMAIN vehicles :
              /\ vehicles[v].casualties_aboard # <<>>
              /\ vproc[v].dest = NoNode
              /\ vproc[v].pc = "top"

\* C10: the log run() returns holds exactly one SIMULATION_STARTED event,
\* the first one, at time 0, and exactly one SIMULATION_ENDED event, the
\* last one, at time duration_hours * 60; every other event lies between
LogBracketedByStartAndEnd ==
    phase = "ENDED" =>
        /\ Len(log) >= 2
        /\ log[1].event_type = "simulation_started"
        /\ log[1].time_mins = 0
        /\ log[Len(log)].event_type = "simulation_ended"
        /\ log[Len(log)].time_mins = scenario.config.duration_mins
        /\ \A i \in 2..(Len(log) - 1) :
               /\ log[i].event_type \notin {"simulation_started",
                                            "simulation_ended"}
               /\ 0 <= log[i].time_mins
               /\ log[i].time_mins <= scenario.config.duration_mins

\* a run has ended with events logged between the two
RunEndedWithEvents ==
    /\ phase = "ENDED"
    /\ Len(log) > 2
    /\ \E i \in 2..(Len(log) - 1) : log[i].time_mins > 0

\* C11: when the number of logged events exceeds the configured maximum
\* event count, the run ends early, before the configured duration, and the
\* log it returns tells this outcome from a completion at the configured
\* duration (its last event is not the SIMULATION_ENDED of a normal run)
EventCapEndsRunEarly ==
    (phase = "ENDED" /\ Len(log) > scenario.config.max_events)
        => /\ now < scenario.config.duration_mins
           /\ log[Len(log)].event_type # "simulation_ended"

\* the sum of the quantities of the manual events numbered in I
RECURSIVE SumQuantity(_, _)
SumQuantity(events, I) ==
    IF I = {} THEN 0
    ELSE LET i == CHOOSE j \in I : TRUE
         IN events[i].quantity + SumQuantity(events, I \ {i})

\* the number of registered entities of a type that were created at that
\* time, location and priority
CreatedLike(event) ==
    CASE event.type = "casualty" ->
             Cardinality({c \in DOMAIN casualties :
                 /\ casualties[c].time_generated = event.time_mins
                 /\ casualties[c].origin_node = event.location
                 /\ casualties[c].priority = event.priority})
      [] event.type = "vehicle_breakdown" ->
             Cardinality({b \in DOMAIN breakdowns :
                 /\ breakdowns[b].time_occurred = event.time_mins
                 /\ breakdowns[b].location = event.location
                 /\ breakdowns[b].priority = event.priority})
      [] event.type = "ammo_request" ->
             Cardinality({a \in DOMAIN ammo_requests :
                 /\ ammo_requests[a].time_requested = event.time_mins
                 /\ ammo_requests[a].location = event.location
                 /\ ammo_requests[a].priority = event.priority})

\* C12: for every manual demand event whose time falls inside the run,
\* exactly `quantity` entities of its type are created at its time with its
\* location and priority: at the end of a run whose only demand is manual,
\* the entities of a type created at a time, location and priority are as
\* many as the quantities of the manual events of that type, time, location
\* and priority add up to
ManualEventsCreateQuantityEntities ==
    (phase = "ENDED" /\ ~scenario.config.enable_breakdowns) =>
        LET events == scenario.demand.manual_events
        IN \A i \in 1..Len(events) :
               events[i].time_mins < scenario.config.duration_mins =>
                   CreatedLike(events[i]) =
                       SumQuantity(events,
                           {j \in 1..Len(events) :
                               /\ events[j].type = events[i].type
                               /\ events[j].time_mins = events[i].time_mins
                               /\ events[j].location = events[i].location
                               /\ events[j].priority = events[i].priority})

\* the number of logged events of a type
LogCount(event_type) ==
    Cardinality({i \in 1..Len(log) : log[i].event_type = event_type})
\* the number of requests popped for dispatch so far, by kind of entity
DispatchCount(prefix) ==
    Cardinality({i \in 1..Len(log) :
        /\ log[i].event_type = "vehicle_dispatched"
        /\ log[i].details.ref.prefix = prefix})

\* C13: every generated entity is registered, logged and queued together:
\* for each kind the number of entities in the registry equals the number of
\* CASUALTY_GENERATED / BREAKDOWN_OCCURRED / AMMO_REQUEST_GENERATED events
\* (one about each entity) and the number of requests inserted into the
\* matching dispatch queue, that is those still queued plus those popped
GeneratedRegisteredLoggedQueued ==
    /\ Cardinality(DOMAIN casualties) = LogCount("casualty_generated")
    /\ Cardinality(DOMAIN casualties)
           = Len(casualty_queue) + DispatchCount("CAS_")
    /\ \A c \in DOMAIN casualties :
           LogIndex("casualty_generated", CasId(c)) > 0
    /\ Cardinality(DOMAIN breakdowns) = LogCount("breakdown_occurred")
    /\ Cardinality(DOMAIN breakdowns)
           = Len(recovery_queue) + DispatchCount("BD_")
    /\ \A b \in DOMAIN breakdowns :
           LogIndex("breakdown_occurred", BdId(b)) > 0
    /\ Cardinality(DOMAIN ammo_requests)
           = LogCount("ammo_request_generated")
    /\ Cardinality(DOMAIN ammo_requests)
           = Len(ammo_queue) + DispatchCount("AMMO_") + LogCount("stockout")
    /\ \A a \in DOMAIN ammo_requests :
           LogIndex("ammo_request_generated", AmmoId(a)) > 0

\* several entities were generated, some popped and some still queued
GeneratedSomeQueuedSomePopped ==
    \/ Len(casualty_queue) > 0 /\ DispatchCount("CAS_") > 0
    \/ Len(recovery_queue) > 0 /\ DispatchCount("BD_") > 0
    \/ Len(ammo_queue) > 0 /\ DispatchCount("AMMO_") > 0

\* the k-th new event is the dispatch of vehicle v
IsDispatchOf(k, v) ==
    /\ NewLog[k].event_type = "vehicle_dispatched"
    /\ NewLog[k].entity_id = VehId(v)

PooledRoles == {"ambulance", "recovery", "ammo_logistics"}
AllRoles == PooledRoles \cup {"fuel_logistics", "general_logistics"}
\* vehicle v is in the idle pool of its role, given the three pools
InPoolOfRole(v, ambulances, recovery, logistics) ==
    LET vt == scenario.vehicles[v]
    IN CASE vt.role = "ambulance" -> In(v, ambulances)
         [] vt.role = "recovery" ->
                In(v, recovery[IF vt.tow_capacity_class = "None" THEN "light"
                               ELSE vt.tow_capacity_class])
         [] vt.role = "ammo_logistics" -> In(v, logistics)
         [] OTHER -> FALSE

\* the repair of breakdown b completes in this step
RepairCompletes(b) ==
    /\ b \in DOMAIN breakdowns
    /\ breakdowns[b].time_repair_completed = None
    /\ breakdowns'[b].time_repair_completed # None

\* after the step the vehicle of breakdown b is IDLE at the workshop and,
\* if its role is one of `roles`, in the idle pool of its role
BrokenVehicleBackInService(b, roles) ==
    LET broken == breakdowns'[b].vehicle_id
    IN /\ breakdowns'[b].repaired_at = rproc[b].node
       /\ vehicles'[broken].state = "idle"
       /\ vehicles'[broken].current_location = breakdowns'[b].repaired_at
       /\ scenario.vehicles[broken].role \in roles
              => InPoolOfRole(broken, idle_ambulances', idle_recovery',
                              idle_logistics')

\* the repair process of breakdown b is spawned in this step, has not run,
\* and the recovery vehicle is back at the workshop in its idle pool
\* (VEHICLE_RETURNED), or already dispatched again from there
RecoveryVehicleFreedAtSpawn(b) ==
    LET v == breakdowns'[b].recovered_by
        workshop == breakdowns'[b].repaired_at
    IN /\ rproc'[b] = [pc |-> "start", node |-> workshop]
       /\ breakdowns'[b].time_repair_started = None
       /\ \E k \in 1..Len(NewLog) :
              /\ NewLog[k].event_type = "vehicle_returned"
              /\ NewLog[k].entity_id = VehId(v)
              /\ NewLog[k].location = workshop
              /\ NewLog[k].time_mins = now'
              /\ \/ /\ vehicles'[v].state = "idle"
                    /\ vehicles'[v].current_location = workshop
                    /\ InPoolOfRole(v, idle_ambulances', idle_recovery',
                                    idle_logistics')
                 \/ \E j \in (k + 1)..Len(NewLog) :
                        IsDispatchOf(j, v) /\ NewLog[j].location = workshop

\* C15 (as the code has it): when the repair of a breakdown completes, the
\* broken-down vehicle is IDLE at the workshop and, if its role has an idle
\* pool (ambulance, recovery, ammo logistics), a member of that pool; the
\* recovery vehicle re-entered its idle pool at the workshop when the
\* repair process was spawned, before the repair started
RepairedVehicleBackInPool ==
    [][ /\ \A b \in DOMAIN breakdowns' :
              RepairCompletes(b) => BrokenVehicleBackInService(b, PooledRoles)
        /\ \A b \in DOMAIN rproc' \ DOMAIN rproc :
              RecoveryVehicleFreedAtSpawn(b)
      ]_vars

\* C15 (as stated): when the repair of a breakdown completes, the
\* broken-down vehicle is IDLE at the workshop and a member of the idle
\* pool of its own role, whatever its role; the recovery vehicle re-entered
\* its idle pool at the workshop when the repair process was spawned
RepairedVehicleBackInPoolOfAnyRole ==
    [][ /\ \A b \in DOMAIN breakdowns' :
              RepairCompletes(b) =>
                  BrokenVehicleBackInService(b, AllRoles)
        /\ \A b \in DOMAIN rproc' \ DOMAIN rproc :
              RecoveryVehicleFreedAtSpawn(b)
      ]_vars

\* a repaired ambulance is idle at the workshop, in the idle-ambulance
\* pool, and the recovery vehicle that towed it is idle there too
RepairedAmbulanceIdleAtWorkshop ==
    \E b \in DOMAIN breakdowns :
        LET broken == breakdowns[b].vehicle_id
            v == breakdowns[b].recovered_by
        IN /\ breakdowns[b].time_repair_completed = now
           /\ scenario.vehicles[broken].role = "ambulance"
           /\ scenario.vehicles[broken].start_location
                  # breakdowns[b].repaired_at
           /\ vehicles[broken].state = "idle"
           /\ vehicles[broken].current_location = breakdowns[b].repaired_at
           /\ In(broken, idle_ambulances)
           /\ v # None /\ v # broken
           /\ vehicles[v].state = "idle"

----------------------------------------------------------------------------
(* Stockout *)

\* the ammunition requests for which the log l holds a STOCKOUT event
StockedOut(l) ==
    {l[k].entity_id.number :
        k \in {j \in 1..Len(l) : l[j].event_type = "stockout"}}

\* C16: when a logistics vehicle pops an ammunition request and no ammo
\* point can be reached from where it stands, a STOCKOUT event for the
\* request is logged at the delivery location, and at that same instant the
\* vehicle is back in the idle-logistics pool, IDLE, where it was; the
\* request is dropped for good: it is never in the queue again, and its
\* time_dispatched, time_delivered and quantity_delivered (0) never change.
StockoutDropsRequest ==
    [][/\ \A k \in 1..Len(NewLog) :
              NewLog[k].event_type = "stockout" =>
                  LET v == NextEvent(queue).id
                      a == NewLog[k].entity_id.number
                  IN /\ scenario.vehicles[v].role = "ammo_logistics"
                     /\ find_nearest_ammo_point(
                            scenario, vehicles[v].current_location) = NoNode
                     /\ a \in QueuedAmmo(ammo_queue)
                     /\ NewLog[k].entity_id = ammo_requests[a].id
                     /\ NewLog[k].location = ammo_requests[a].location
                     /\ NewLog[k].time_mins = now'
                     /\ In(v, idle_logistics')
                     /\ vehicles'[v].state = "idle"
                     /\ vehicles'[v].current_location =
                            vehicles[v].current_location
       /\ \A a \in StockedOut(log') :
              /\ a \notin QueuedAmmo(ammo_queue')
              /\ ammo_requests'[a].time_dispatched = None
              /\ ammo_requests'[a].time_delivered = None
              /\ ammo_requests'[a].quantity_delivered = 0]_vars

\* two requests were given up at different times, and the vehicle is idle
\* in its pool
TwoRequestsStockedOut ==
    /\ \E j, k \in 1..Len(log) :
           /\ log[j].event_type = "stockout"
           /\ log[k].event_type = "stockout"
           /\ log[j].time_mins < log[k].time_mins
    /\ \E v \in 1..Len(scenario.vehicles) :
           In(v, idle_logistics) /\ vehicles[v].state = "idle"

----------------------------------------------------------------------------
(* Crew rest and maintenance *)

\* the number of events of log l of the given type and subtype that name
\* vehicle v
VehicleEvents(l, v, event_type, event_subtype) ==
    Cardinality({k \in 1..Len(l) :
                    /\ l[k].event_type = event_type
                    /\ l[k].entity_id = VehId(v)
                    /\ l[k].details.event_subtype = event_subtype})

\* by log l, vehicle v has started a crew rest that has not ended
Resting(l, v) ==
    VehicleEvents(l, v, "crew_rest_started", "") >
        VehicleEvents(l, v, "crew_rest_ended", "")

\* vehicle v is in one of the three idle pools
InSomePool(v, ambulances, recovery, logistics) ==
    \/ In(v, ambulances)
    \/ In(v, logistics)
    \/ \E c \in DOMAIN recovery : In(v, recovery[c])

\* C17: from the instant CREW_REST_STARTED is logged for a vehicle until
\* CREW_REST_ENDED is logged for it, the vehicle is in no idle pool, its
\* state is CREW_REST, and no VEHICLE_DISPATCHED is logged for it.
RestingVehicleNotDispatched ==
    [][\A v \in 1..Len(scenario.vehicles) :
          /\ Resting(log', v) =>
                 /\ ~InSomePool(v, idle_ambulances', idle_recovery',
                                idle_logistics')
                 /\ vehicles'[v].state = "crew_rest"
          /\ Resting(log, v) =>
                 \A k \in 1..Len(NewLog) :
                     ~(/\ NewLog[k].event_type = "vehicle_dispatched"
                       /\ NewLog[k].entity_id = VehId(v))]_vars

\* a crew rest has started for a vehicle that was on a mission
VehicleRestingOnMission ==
    \E v \in 1..Len(scenario.vehicles) :
        /\ Resting(log, v)
        /\ vehicles[v].state = "crew_rest"
        /\ vproc[v].pc # "top"

\* by log l, a maintenance window of vehicle v is open
InMaintenance(l, v) ==
    VehicleEvents(l, v, "shift_change", "maintenance_started") >
        VehicleEvents(l, v, "shift_change", "maintenance_completed")

\* the time of the last event of log l that starts a maintenance of v
RECURSIVE MaintenanceStart(_, _, _)
MaintenanceStart(l, v, k) ==
    IF k = 0 THEN None
    ELSE IF /\ l[k].event_type = "shift_change"
            /\ l[k].entity_id = VehId(v)
            /\ l[k].details.event_subtype = "maintenance_started"
    THEN l[k].time_mins
    ELSE MaintenanceStart(l, v, k - 1)

\* C18: a maintenance window of a vehicle starts only when the vehicle is
\* idle (state IDLE, its process not on a mission); from the start until the
\* completion, MAINTENANCE_DURATION_MINS later, the vehicle is in no idle
\* pool and no VEHICLE_DISPATCHED is logged for it.
MaintenanceWindowRespected ==
    [][\A v \in 1..Len(scenario.vehicles) :
          /\ (~InMaintenance(log, v) /\ InMaintenance(log', v)) =>
                 /\ vehicles[v].state = "idle"
                 /\ vproc[v].pc \in {"start", "top"}
          /\ InMaintenance(log', v) =>
                 ~InSomePool(v, idle_ambulances', idle_recovery',
                             idle_logistics')
          /\ InMaintenance(log, v) =>
                 \A k \in 1..Len(NewLog) :
                     ~(/\ NewLog[k].event_type = "vehicle_dispatched"
                       /\ NewLog[k].entity_id = VehId(v))
          /\ (InMaintenance(log, v) /\ ~InMaintenance(log', v)) =>
                 now' = MaintenanceStart(log, v, Len(log))
                            + MAINTENANCE_DURATION_MINS]_vars

\* a maintenance window has been completed while a casualty waited for the
\* only ambulance
MaintenanceCompletedWhileCasualtyWaited ==
    \E v \in 1..Len(scenario.vehicles) :
        /\ VehicleEvents(log, v, "shift_change", "maintenance_completed") > 0
        /\ casualty_queue # <<>>
        /\ In(v, idle_ambulances)

----------------------------------------------------------------------------
(* Random breakdowns *)

\* the breakdowns of vehicle v that are not repaired yet
OpenBreakdowns(v) ==
    {b \in DOMAIN breakdowns :
        /\ breakdowns[b].vehicle_id = v
        /\ breakdowns[b].time_repair_completed = None}

\* C19: the random breakdown generator injects a breakdown for a vehicle
\* only if the vehicle is operational at that instant: not already broken
\* down (no breakdown of it still awaits recovery or repair), not in crew
\* rest and not in maintenance; the breakdown is located where the vehicle
\* is.
BreakdownOnlyOfOperationalVehicle ==
    [][(Resumes("breakdown") /\ counters'.breakdown # counters.breakdown) =>
          LET v == NextEvent(queue).id
              b == counters'.breakdown
          IN /\ breakdowns'[b].vehicle_id = v
             /\ breakdowns'[b].location = vehicles[v].current_location
             /\ vehicles[v].state \notin NotOperational
             /\ OpenBreakdowns(v) = {}
             /\ ~Resting(log, v)
             /\ ~InMaintenance(log, v)]_vars

\* the generator has broken down a vehicle that was on a mission
VehicleBrokenDownOnMission ==
    \E b \in DOMAIN breakdowns :
        /\ breakdowns[b].priority = PRIORITY
        /\ scenario.config.enable_breakdowns
        /\ vehicles[breakdowns[b].vehicle_id].state = "broken_down"
        /\ vproc[breakdowns[b].vehicle_id].pc \notin {"start", "top"}

----------------------------------------------------------------------------
(* The scan of the recovery queue *)

\* the requests of heap q in the order in which heappop hands them out
RECURSIVE PopOrder(_)
PopOrder(q) ==
    IF q = <<>> THEN <<>>
    ELSE <<heappop(q).item>> \o PopOrder(heappop(q).heap)

\* the requests of q (they differ in their breakdown, so a queue holds no
\* request twice and its multiset is this set together with its length)
Requests(q) == {q[i] : i \in 1..Len(q)}

\* the tow class under which recovery vehicle v scans
TowClassOf(v) ==
    IF scenario.vehicles[v].tow_capacity_class = "None" THEN "light"
    ELSE scenario.vehicles[v].tow_capacity_class

\* recovery vehicle v resumes at the head of its loop, idle, with requests
\* waiting: this step is one scan of the queue
Scans(v) ==
    /\ RoleResumes("recovery")
    /\ NextEvent(queue).id = v
    /\ vproc[v].pc \in {"start", "top"}
    /\ In(v, idle_recovery[TowClassOf(v)])
    /\ recovery_queue # <<>>

\* the positions in pop order of the requests v can tow
Compatible(v) ==
    {i \in 1..Len(recovery_queue) :
        can_tow(TowClassOf(v), PopOrder(recovery_queue)[i].vehicle_class)}

\* C20: a scan of the recovery queue by a recovery vehicle removes at most
\* one request, the first in pop order that its tow class can handle, and
\* puts every skipped request back: the queue afterwards holds the requests
\* it held before but for the selected one; if no request is compatible the
\* contents of the queue are unchanged and the vehicle stays in its idle
\* pool.
ScanRemovesFirstCompatibleOnly ==
    [][\A v \in 1..Len(scenario.vehicles) :
          Scans(v) =>
              IF Compatible(v) = {}
              THEN /\ Requests(recovery_queue') = Requests(recovery_queue)
                   /\ Len(recovery_queue') = Len(recovery_queue)
                   /\ In(v, idle_recovery'[TowClassOf(v)])
                   /\ NewLog = <<>>
              ELSE LET first == CHOOSE i \in Compatible(v) :
                                    \A j \in Compatible(v) : i <= j
                       selected == PopOrder(recovery_queue)[first]
                   IN /\ Requests(recovery_queue') =
                             Requests(recovery_queue) \ {selected}
                      /\ Len(recovery_queue') = Len(recovery_queue) - 1
                      /\ breakdowns'[selected.breakdown].recovered_by = v
                      /\ breakdowns[selected.breakdown].recovered_by = None
                      /\ ~In(v, idle_recovery'[TowClassOf(v)])]_vars

\* a scan has taken the second request in pop order and put the first,
\* which is too heavy for the vehicle, back; the vehicle has since returned
\* and scans in vain
SkippedRequestBackInQueue ==
    \E v \in 1..Len(scenario.vehicles) :
        /\ phase = "RUNNING"
        /\ scenario.vehicles[v].role = "recovery"
        /\ vproc[v].pc = "top"
        /\ In(v, idle_recovery[TowClassOf(v)])
        /\ recovery_queue # <<>>
        /\ Compatible(v) = {}
        /\ \E b \in DOMAIN breakdowns :
               /\ breakdowns[b].recovered_by = v
               /\ \E i \in 1..Len(recovery_queue) :
                      \/ recovery_queue[i].priority < breakdowns[b].priority
                      \/ /\ recovery_queue[i].priority = breakdowns[b].priority
                         /\ recovery_queue[i].time_requested <
                                breakdowns[b].time_occurred

----------------------------------------------------------------------------
(* Routing *)

\* the edges of scenario sc that join a and b, in either direction
RoadsBetween(sc, a, b) ==
    {i \in 1..Len(sc.edges) :
        {sc.edges[i].from_node, sc.edges[i].to_node} = {a, b}}

\* the lightest of them: distance x terrain factor
LightestRoad(sc, a, b) ==
    SetMin({sc.edges[i].distance_km * sc.edges[i].terrain_factor :
               i \in RoadsBetween(sc, a, b)})

\* the paths from a to b: sequences of distinct nodes, each joined to the
\* next by an edge
RoadPaths(sc, a, b) ==
    {p \in UNION {[1..n -> NodeIds(sc)] : n \in 2..Len(sc.nodes)} :
        /\ p[1] = a
        /\ p[Len(p)] = b
        /\ \A i, j \in 1..Len(p) : i # j => p[i] # p[j]
        /\ \A i \in 1..(Len(p) - 1) : RoadsBetween(sc, p[i], p[i + 1]) # {}}

RECURSIVE PathKm(_, _, _)
PathKm(sc, p, i) ==
    IF i >= Len(p) THEN 0
    ELSE LightestRoad(sc, p[i], p[i + 1]) + PathKm(sc, p, i + 1)

\* the weight of a shortest path from a to b (Inf: there is no path)
ShortestKm(sc, a, b) ==
    IF RoadPaths(sc, a, b) = {} THEN Inf
    ELSE SetMin({PathKm(sc, p, 1) : p \in RoadPaths(sc, a, b)})

\* C21: travel_time(from, to, speed) is the weight of a shortest path
\* between the two nodes, each edge weighing distance x terrain factor,
\* divided by the speed and multiplied by 60; it is 0 when from = to and the
\* infinity sentinel when there is no path.
TravelTimeOfShortestPath ==
    call.op = "calculate_travel_time" =>
        IF call.from_node = call.to_node THEN call.minutes = 0
        ELSE IF ShortestKm(scenario, call.from_node, call.to_node) = Inf
        THEN call.minutes = Inf
        ELSE call.minutes * call.speed_kmh =
                 ShortestKm(scenario, call.from_node, call.to_node) * 60

\* a query between two nodes that a detour joins more cheaply than the
\* direct edge
DetourShorterThanDirectRoad ==
    /\ call.op = "calculate_travel_time"
    /\ call.from_node # call.to_node
    /\ RoadsBetween(scenario, call.from_node, call.to_node) # {}
    /\ ShortestKm(scenario, call.from_node, call.to_node) <
           LightestRoad(scenario, call.from_node, call.to_node)
    /\ call.minutes < Inf

\* the weight of path p in the graph
RECURSIVE GraphPathKm(_, _, _)
GraphPathKm(sc, p, i) ==
    IF i >= Len(p) THEN 0
    ELSE effective_km(sc, p[i], p[i + 1]) + GraphPathKm(sc, p, i + 1)

\* the shortest-path distance from a to b in the graph (Inf: no path)
GraphKm(sc, a, b) ==
    IF a = b THEN 0
    ELSE IF RoadPaths(sc, a, b) = {} THEN Inf
    ELSE SetMin({GraphPathKm(sc, p, 1) : p \in RoadPaths(sc, a, b)})

\* the node types a nearest-node query looks for
TypesOf(op) ==
    CASE op = "find_nearest_medical" -> {"medical_role1", "medical_role2"}
      [] op = "find_nearest_workshop" -> {"repair_workshop"}
      [] op = "find_nearest_ammo_point" -> {"ammo_point"}
      [] OTHER -> {}

\* the positions in the node list of the nodes of the wanted types that
\* can be reached from from_node
Reachable(sc, types, from_node) ==
    {i \in 1..Len(sc.nodes) :
        /\ sc.nodes[i].type \in types
        /\ GraphKm(sc, from_node, sc.nodes[i].id) < Inf}

\* C22: a nearest-node query (medical facility, workshop, ammo point)
\* returns a node of the wanted type whose shortest-path distance from the
\* origin is minimal among the reachable nodes of that type; of equally
\* distant ones it returns the first of the scenario's node list; it
\* returns None exactly when no node of the type can be reached.
NearestIsFirstOfTheClosest ==
    TypesOf(call.op) # {} =>
        LET candidates == Reachable(scenario, TypesOf(call.op), call.from_node)
            km(i) == GraphKm(scenario, call.from_node, scenario.nodes[i].id)
        IN IF candidates = {} THEN call.node = NoNode
           ELSE \E i \in candidates :
                    /\ call.node = scenario.nodes[i].id
                    /\ \A j \in candidates : km(i) <= km(j)
                    /\ \A j \in candidates : km(j) = km(i) => i <= j

\* two nodes of the wanted type are equally close and the answer is the one
\* listed first, though it comes second in the alphabet; a third is
\* farther or out of reach
NearestTieGoesToFirstListed ==
    /\ TypesOf(call.op) # {}
    /\ \E i, j \in Reachable(scenario, TypesOf(call.op), call.from_node) :
           /\ i < j
           /\ call.node = scenario.nodes[i].id
           /\ scenario.nodes[i].id = "C"
           /\ scenario.nodes[j].id = "B"
           /\ GraphKm(scenario, call.from_node, "C") =
                  GraphKm(scenario, call.from_node, "B")
           /\ GraphKm(scenario, call.from_node, "C") > 0

\* vehicle v was dispatched along a route that does not exist: its process
\* waits for a timeout that never comes
Stalled(v) ==
    \E e \in queue : e.pk = "vehicle" /\ e.id = v /\ e.time = Inf

\* the request vehicle v is on its way for
RequestIdOf(v) ==
    CASE scenario.vehicles[v].role = "ambulance" -> CasId(vproc[v].request)
      [] scenario.vehicles[v].role = "recovery" -> BdId(vproc[v].request)
      [] OTHER -> AmmoId(vproc[v].request)

\* the request of vehicle v is still not served
RequestPending(v) ==
    CASE scenario.vehicles[v].role = "ambulance" ->
             casualties[vproc[v].request].time_delivered = None
      [] scenario.vehicles[v].role = "recovery" ->
             breakdowns[vproc[v].request].time_arrived_workshop = None
      [] OTHER -> ammo_requests[vproc[v].request].time_delivered = None

\* the event types of a mission that runs its course
RoutineEvents ==
    {"casualty_generated", "ammo_request_generated", "breakdown_occurred",
     "vehicle_dispatched", "vehicle_arrived", "vehicle_departed",
     "vehicle_returned", "loading_started", "loading_completed",
     "unloading_started", "unloading_completed", "casualty_collected",
     "casualty_delivered", "treatment_started", "treatment_completed",
     "hookup_started", "hookup_completed", "repair_started",
     "repair_completed", "ammo_loaded", "ammo_delivered"}

\* C23: when the destination of a dispatched vehicle cannot be reached from
\* where it stands, the travel time is infinite: the vehicle never arrives
\* and is in no idle pool again, the request stays pending, an event that
\* reports the failure is logged, and the run is not aborted.
RoutingFailureStallsAndWarns ==
    \A v \in DOMAIN vehicles :
        (phase # "UNINITIALIZED" /\ Stalled(v)) =>
            /\ phase # "RAISED"
            /\ ~InSomePool(v, idle_ambulances, idle_recovery, idle_logistics)
            /\ vehicles[v].current_location # vproc[v].pickup
            /\ RequestPending(v)
            /\ \E k \in 1..Len(log) :
                   /\ log[k].entity_id \in {VehId(v), RequestIdOf(v)}
                   /\ log[k].event_type \notin RoutineEvents

\* the run has gone on and ended normally with a vehicle stalled on the way
\* to a place it cannot reach, while another casualty waits
StalledVehicleAtEndOfRun ==
    /\ phase = "ENDED"
    /\ \E v \in DOMAIN vehicles :
           /\ Stalled(v)
           /\ vehicles[v].state = "transiting_unladen"
           /\ casualties[vproc[v].request].time_collected = None
    /\ casualty_queue # <<>>

----------------------------------------------------------------------------
(* The event log and the entity registries *)

\* C24: the event log is append-only and ordered in time: every step only
\* appends events (the log before is a prefix of the log after, no record is
\* changed), the events are appended in non-decreasing simulated time, and
\* so the chronological view `events` is the sequence in insertion order.
LogAppendOnlyInTimeOrder ==
    [][/\ Len(log') >= Len(log)
       /\ SubSeq(log', 1, Len(log)) = log
       /\ \A k \in 1..(Len(log') - 1) :
              log'[k].time_mins <= log'[k + 1].time_mins
       /\ EventLog_events(log') = log']_vars

\* the log holds events of one instant next to each other and events of
\* different instants
LogWithSimultaneousAndLaterEvents ==
    /\ Len(log) >= 3
    /\ \E i \in 1..(Len(log) - 1) :
           /\ log[i].time_mins = log[i + 1].time_mins
           /\ log[i].event_type # log[i + 1].event_type
    /\ \E k \in 1..(Len(log) - 1) : log[k].time_mins < log[k + 1].time_mins
    /\ EventLog_events(log) = log

\* the entities of log l's events of type event_type, in the order logged
RECURSIVE LoggedIds(_, _)
LoggedIds(l, event_type) ==
    IF l = <<>> THEN <<>>
    ELSE LoggedIds(SubSeq(l, 1, Len(l) - 1), event_type)
         \o (IF l[Len(l)].event_type = event_type
             THEN <<l[Len(l)].entity_id>> ELSE <<>>)

\* registry reg, with its counter, holds the entities numbered 1..counter
\* under the IDs of its kind, each known by an ID that no other has, and
\* the k-th entity that log l reports as created is number k
RegistryNumbered(reg, counter, prefix, l, event_type) ==
    /\ DOMAIN reg = 1..counter
    /\ \A k \in DOMAIN reg : reg[k].id = [prefix |-> prefix, number |-> k]
    /\ \A j, k \in DOMAIN reg : j # k => reg[j].id # reg[k].id
    /\ Len(LoggedIds(l, event_type)) = counter
    /\ \A k \in 1..counter :
           LoggedIds(l, event_type)[k] = [prefix |-> prefix, number |-> k]

\* no entity leaves the registry or changes its ID
RegistryKept(before, after) ==
    /\ DOMAIN before \subseteq DOMAIN after
    /\ \A k \in DOMAIN before : after[k].id = before[k].id

\* C25: the IDs of a kind are given out in order and no entity is ever
\* deleted: the k-th casualty, breakdown or ammo request created has the ID
\* with number k of its kind, the IDs of a kind differ from each other,
\* the size of each registry is its counter, and no registry shrinks.
EntityIdsInOrderOfCreation ==
    [][/\ RegistryNumbered(casualties', counters'.casualty, "CAS_", log',
                           "casualty_generated")
       /\ RegistryNumbered(breakdowns', counters'.breakdown, "BD_", log',
                           "breakdown_occurred")
       /\ RegistryNumbered(ammo_requests', counters'.ammo_request, "AMMO_",
                           log', "ammo_request_generated")
       /\ RegistryKept(casualties, casualties')
       /\ RegistryKept(breakdowns, breakdowns')
       /\ RegistryKept(ammo_requests, ammo_requests')
       /\ counters'.casualty >= counters.casualty
       /\ counters'.breakdown >= counters.breakdown
       /\ counters'.ammo_request >= counters.ammo_request]_vars

\* three casualties have been created, at two different times
ThreeCasualtiesRegistered ==
    /\ counters.casualty = 3
    /\ DOMAIN casualties = 1..3
    /\ casualties[1].time_generated < casualties[3].time_generated

\* the lifecycle timestamps and the creation fields of each kind of entity
CasualtyStamps ==
    {"time_collected", "time_delivered", "time_treatment_started",
     "time_treatment_completed"}
CasualtyCreation == {"time_generated", "origin_node", "priority"}
BreakdownStamps ==
    {"time_recovery_dispatched", "time_recovery_arrived",
     "time_hookup_completed", "time_arrived_workshop", "time_repair_started",
     "time_repair_completed"}
BreakdownCreation == {"time_occurred", "location", "priority"}
AmmoRequestStamps == {"time_dispatched", "time_loaded", "time_delivered"}
AmmoRequestCreation == {"time_requested", "location", "priority"}

\* every entity of registry before is in registry after with each stamp
\* that was set and each creation field as it was
StampsKept(before, after, stamps, creation) ==
    \A k \in DOMAIN before :
        /\ k \in DOMAIN after
        /\ \A f \in stamps : before[k][f] # None => after[k][f] = before[k][f]
        /\ \A f \in creation : after[k][f] = before[k][f]

\* C26: a lifecycle timestamp of a casualty, breakdown or ammo request that
\* holds a value is never changed or cleared by any step, and the entity's
\* creation time, location and priority never change.
TimestampsSetOnce ==
    [][/\ StampsKept(casualties, casualties', CasualtyStamps,
                     CasualtyCreation)
       /\ StampsKept(breakdowns, breakdowns', BreakdownStamps,
                     BreakdownCreation)
       /\ StampsKept(ammo_requests, ammo_requests', AmmoRequestStamps,
                     AmmoRequestCreation)]_vars

\* a casualty collected and delivered at different times, a breakdown
\* dispatched to and reached at different times, or an ammo request loaded
\* and delivered at different times, with the clock past the last of them
EntityStampedTwiceAndClockMovedOn ==
    \/ \E c \in DOMAIN casualties :
           /\ casualties[c].time_collected # None
           /\ casualties[c].time_delivered # None
           /\ casualties[c].time_collected < casualties[c].time_delivered
           /\ casualties[c].time_delivered < now
    \/ \E b \in DOMAIN breakdowns :
           /\ breakdowns[b].time_recovery_dispatched # None
           /\ breakdowns[b].time_recovery_arrived # None
           /\ breakdowns[b].time_recovery_dispatched
                  < breakdowns[b].time_recovery_arrived
           /\ breakdowns[b].time_recovery_arrived < now
    \/ \E a \in DOMAIN ammo_requests :
           /\ ammo_requests[a].time_loaded # None
           /\ ammo_requests[a].time_delivered # None
           /\ ammo_requests[a].time_loaded < ammo_requests[a].time_delivered
           /\ ammo_requests[a].time_delivered < now

\* the end of the active window of a rate-based specification of scenario sc
ActiveUntil(sc, config) ==
    IF config.active_until_mins = None THEN sc.config.duration_mins
    ELSE config.active_until_mins

\* creation time and priority of the entities that the step creates
CreatedInStep ==
    {[time |-> casualties'[k].time_generated,
      priority |-> casualties'[k].priority] :
         k \in DOMAIN casualties' \ DOMAIN casualties}
    \cup {[time |-> breakdowns'[k].time_occurred,
           priority |-> breakdowns'[k].priority] :
              k \in DOMAIN breakdowns' \ DOMAIN breakdowns}
    \cup {[time |-> ammo_requests'[k].time_requested,
           priority |-> ammo_requests'[k].priority] :
              k \in DOMAIN ammo_requests' \ DOMAIN ammo_requests}

\* the number of entities that the step creates
NumberCreatedInStep ==
    Cardinality(DOMAIN casualties' \ DOMAIN casualties)
    + Cardinality(DOMAIN breakdowns' \ DOMAIN breakdowns)
    + Cardinality(DOMAIN ammo_requests' \ DOMAIN ammo_requests)

\* the generator of rate-based specification g wakes up for an arrival
\* before the end of its window
ArrivalInWindow(g) ==
    /\ gproc.rate[g] = "arrival"
    /\ NextEvent(queue).time
           < ActiveUntil(scenario, scenario.demand.rate_based[g])

\* what a step of the generator of rate-based specification g creates
RateStepCreates(g) ==
    LET config == scenario.demand.rate_based[g]
    IN /\ \A e \in CreatedInStep :
              /\ config.active_from_mins <= e.time
              /\ e.time < ActiveUntil(scenario, config)
              /\ e.priority \in config.priorities
       /\ \A e, f \in CreatedInStep : e.priority = f.priority
       /\ IF ArrivalInWindow(g)
          THEN /\ config.min_quantity <= NumberCreatedInStep
               /\ NumberCreatedInStep <= config.max_quantity
          ELSE NumberCreatedInStep = 0

\* C27: a rate-based generator creates entities only at times t with
\* active_from <= t < active_until, where active_until is the end of the
\* scenario when it is not set, and each arrival creates between
\* min_quantity and max_quantity entities, all of one priority that is one
\* of the weighted levels.
RateGeneratorKeepsWindowAndQuantity ==
    [][Resumes("rate") => RateStepCreates(NextEvent(queue).id)]_vars

\* a generator with a window that ends at 5 has finished: its arrival at 2
\* created two casualties and its arrival at 5 created nothing
ArrivalAtEndOfWindowCreatedNothing ==
    /\ phase = "RUNNING"
    /\ scenario.demand.mode = "rate_based"
    /\ scenario.demand.rate_based[1].active_until_mins = 5
    /\ gproc.rate[1] = "done"
    /\ now = 5
    /\ DOMAIN casualties = 1..2
    /\ \A c \in DOMAIN casualties : casualties[c].time_generated = 2

\* the unresolved references of document sc: an edge to or from an unknown
\* node, a vehicle of an unknown type or at an unknown start location, and
\* demand at an unknown node
UnresolvedReferences(sc) ==
    {[problem |-> "unknown source node", edge |-> i,
      ref |-> sc.edges[i].from_node] :
         i \in {i \in DOMAIN sc.edges : sc.edges[i].from_node \notin NodeIds(sc)}}
    \cup {[problem |-> "unknown destination node", edge |-> i,
           ref |-> sc.edges[i].to_node] :
              i \in {i \in DOMAIN sc.edges :
                        sc.edges[i].to_node \notin NodeIds(sc)}}
    \cup {[problem |-> "unknown type", vehicle |-> sc.vehicles[j].id,
           ref |-> sc.vehicles[j].type_id] :
              j \in {j \in DOMAIN sc.vehicles :
                        \A t \in DOMAIN sc.vehicle_types :
                            sc.vehicle_types[t].id # sc.vehicles[j].type_id}}
    \cup {[problem |-> "unknown start node", vehicle |-> sc.vehicles[j].id,
           ref |-> sc.vehicles[j].start_location] :
              j \in {j \in DOMAIN sc.vehicles :
                        sc.vehicles[j].start_location \notin NodeIds(sc)}}
    \cup {[problem |-> "demand at unknown node",
           ref |-> sc.demand.manual_events[k].location] :
              k \in {k \in DOMAIN sc.demand.manual_events :
                        sc.demand.manual_events[k].location
                            \notin NodeIds(sc)}}

\* the edges of document sc that join a node to itself
SelfLoops(sc) ==
    {[problem |-> "self-loop", edge |-> i, ref |-> sc.edges[i].from_node] :
        i \in {i \in DOMAIN sc.edges :
                  sc.edges[i].from_node = sc.edges[i].to_node}}

Validated == call.op = "validate_all_references"
Entries == {call.errors[i] : i \in DOMAIN call.errors}

RejectedForSelfLoopOnly ==
    /\ Validated
    /\ call.raised
    /\ UnresolvedReferences(scenario) = {}

\* the cycle of the states of a vehicle of the given role
Cycle(role) ==
    IF role = "recovery"
    THEN <<"idle", "transiting_unladen", "hookup", "transiting_laden",
           "unloading">>
    ELSE <<"idle", "transiting_unladen", "loading", "transiting_laden",
           "unloading">>

\* state b is the one that follows state a in the cycle of the role
FollowsInCycle(role, a, b) ==
    \E i \in 1..5 : Cycle(role)[i] = a /\ Cycle(role)[(i % 5) + 1] = b

\* the state of vehicle v before the step, then the values the step gives it
StatesInStep(v) == <<vehicles[v].state>> \o vehicles'[v].assigned

ModulatorsDisabled ==
    /\ ~scenario.config.enable_crew_fatigue
    /\ ~scenario.config.enable_vehicle_maintenance
    /\ ~scenario.config.enable_breakdowns

\* C29: with the extended-operations modulators disabled, every change of
\* the state of an ambulance, logistics or recovery vehicle goes from a state
\* of its role's cycle to the next state of that cycle: IDLE,
\* TRANSITING_UNLADEN, LOADING (HOOKUP for recovery), TRANSITING_LADEN,
\* UNLOADING and IDLE again.
StateChangesFollowCycle ==
    [][(phase = "RUNNING" /\ ModulatorsDisabled) =>
           \A v \in DOMAIN vehicles :
               scenario.vehicles[v].role
                   \in {"ambulance", "ammo_logistics", "recovery"}
               => \A i \in 1..(Len(StatesInStep(v)) - 1) :
                      \/ StatesInStep(v)[i] = StatesInStep(v)[i + 1]
                      \/ FollowsInCycle(scenario.vehicles[v].role,
                                        StatesInStep(v)[i],
                                        StatesInStep(v)[i + 1])]_vars

\* a recovery vehicle has gone from HOOKUP straight to IDLE
RecoveryVehicleIdleAfterHookup ==
    /\ phase = "RUNNING"
    /\ ModulatorsDisabled
    /\ \E v \in DOMAIN vehicles :
           /\ scenario.vehicles[v].role = "recovery"
           /\ vehicles[v].assigned = <<"idle">>
           /\ \E b \in DOMAIN breakdowns :
                  /\ breakdowns[b].recovered_by = v
                  /\ breakdowns[b].time_hookup_completed = now
                  /\ breakdowns[b].time_arrived_workshop = None

\* the vehicle whose own loop the step resumes, if the step is of a vehicle
OwnerOfStep == IF Resumes("vehicle") THEN {NextEvent(queue).id} ELSE {}

\* C30: only the own process of a vehicle changes the vehicle's state and
\* current location: the step of another vehicle's loop, of a demand
\* generator, of a treatment or repair process or of a modulator leaves
\* them as they were.
OnlyOwnProcessChangesVehicle ==
    [][phase = "RUNNING" =>
           \A v \in DOMAIN vehicles \ OwnerOfStep :
               /\ vehicles'[v].state = vehicles[v].state
               /\ vehicles'[v].current_location
                      = vehicles[v].current_location]_vars

\* the breakdown generator, a modulator, has just put a vehicle into
\* BROKEN_DOWN while the vehicle's loop was on a mission
ModulatorBrokeDownVehicleOnMission ==
    /\ phase = "RUNNING"
    /\ \E v \in DOMAIN vehicles :
           /\ vehicles[v].state = "broken_down"
           /\ vehicles[v].assigned = <<"broken_down">>
           /\ vproc[v].pc \notin {"off", "start", "top"}
           /\ vproc[v].request # 0

----------------------------------------------------------------------------
(* Requests that small recovery vehicles skip *)

\* the request for breakdown b waits in the recovery queue
InRecoveryQueue(b) ==
    \E i \in 1..Len(recovery_queue) : recovery_queue[i].breakdown = b

\* the recovery vehicles of the fleet whose tow class covers breakdown b
CanRecover(b) ==
    {v \in DOMAIN scenario.vehicles :
        /\ scenario.vehicles[v].role = "recovery"
        /\ can_tow(TowClassOf(v), breakdowns[b].vehicle_class)}

\* breakdown b waits in the queue of a fleet that can recover it, in a run
\* without modulators, so that its recovery vehicles keep coming back
WaitsForCompatibleVehicle(b) ==
    /\ phase = "RUNNING"
    /\ ModulatorsDisabled
    /\ b \in DOMAIN breakdowns
    /\ InRecoveryQueue(b)
    /\ CanRecover(b) # {}

\* breakdown b has been given to a recovery vehicle that can tow it
DispatchedToCompatibleVehicle(b) ==
    /\ b \in DOMAIN breakdowns
    /\ ~InRecoveryQueue(b)
    /\ breakdowns[b].time_recovery_dispatched # None
    /\ breakdowns[b].recovered_by \in CanRecover(b)

\* C31: a breakdown request that waits in the recovery queue while the
\* fleet has a recovery vehicle whose tow class covers it is eventually
\* dispatched to such a vehicle, however often smaller vehicles skip it.
CompatibleRequestEventuallyDispatched ==
    \A b \in 1..2 :
        WaitsForCompatibleVehicle(b) ~> DispatchedToCompatibleVehicle(b)

\* the light recovery vehicle has skipped the two requests at least twice
\* and the heavy one, back from the first, has taken the second
SkippedRequestTakenByHeavyVehicle ==
    /\ phase = "RUNNING"
    /\ ModulatorsDisabled
    /\ Len(scenario.vehicles) = 4
    /\ scenario.vehicles[2].vehicle_class = "heavy"
    /\ DOMAIN breakdowns = 1..2
    /\ \A b \in 1..2 : /\ DispatchedToCompatibleVehicle(b)
                       /\ breakdowns[b].recovered_by = 4
    /\ In(1, idle_recovery["light"])
    /\ vehicles[1].missions_completed = 0
    /\ vehicles[4].missions_completed = 1

----------------------------------------------------------------------------
(* Crew rest *)

\* the times at which log l shows vehicle v idle: it is dispatched from its
\* idle pool, or it returns to it
SeenIdle(l, v) ==
    {l[k].time_mins : k \in {k \in 1..Len(l) :
        /\ l[k].entity_id = VehId(v)
        /\ l[k].event_type \in {"vehicle_dispatched", "vehicle_returned"}}}

\* the crew rests of vehicle v that log l reports as started, as ended
RestStarts(l, v) ==
    {k \in 1..Len(l) : /\ l[k].entity_id = VehId(v)
                       /\ l[k].event_type = "crew_rest_started"}
RestEnds(l, v) ==
    {k \in 1..Len(l) : /\ l[k].entity_id = VehId(v)
                       /\ l[k].event_type = "crew_rest_ended"}

\* every crew rest of vehicle v starts after max_continuous_ops minutes
\* in which the log never shows the vehicle idle
RestOnlyAfterContinuousOps(v) ==
    \A k \in RestStarts(log', v) :
        \A t \in SeenIdle(SubSeq(log', 1, k), v) :
            log'[k].time_mins - t >= scenario.vehicles[v].max_continuous_ops

\* every crew rest of vehicle v that ends has lasted the fixed duration, and
\* the step that ends it leaves the vehicle idle with its timer restarted
RestEndsAfterFixedDuration(v) ==
    /\ \A k \in RestEnds(log', v) :
           \E j \in RestStarts(SubSeq(log', 1, k), v) :
               /\ log'[k].time_mins - log'[j].time_mins = REST_DURATION_MINS
               /\ \A i \in (j + 1)..(k - 1) : i \notin RestEnds(log', v)
    /\ \A k \in RestEnds(log', v) \ RestEnds(log, v) :
           /\ vehicles'[v].state = "idle"
           /\ vehicles'[v].continuous_ops_start = now'
           /\ now' = log'[k].time_mins

\* C32: CREW_REST_STARTED is logged for a vehicle only when the vehicle has
\* not been idle during the max_continuous_ops minutes before; the rest
\* lasts the fixed duration, and when it ends the vehicle is idle and its
\* continuous-operations timer restarts at that instant.
CrewRestOnlyAfterContinuousOps ==
    [][\A v \in DOMAIN scenario.vehicles :
           /\ RestOnlyAfterContinuousOps(v)
           /\ RestEndsAfterFixedDuration(v)]_vars

\* an ambulance dispatched at 4 was sent to rest at 15, and the rest has
\* ended at 495
RestStartedElevenMinutesAfterDispatch ==
    /\ phase = "RUNNING"
    /\ scenario.vehicles[1].max_continuous_ops = 12
    /\ \E k \in RestStarts(log, 1) :
           /\ log[k].time_mins = 15
           /\ 4 \in SeenIdle(SubSeq(log, 1, k), 1)
    /\ RestEnds(log, 1) # {}
    /\ now = 495

----------------------------------------------------------------------------
(* Treatment and repair in the log *)

\* log l holds an event of the given type for the entity at time t
Logged(l, event_type, entity_id, t) ==
    \E k \in 1..Len(l) : /\ l[k].event_type = event_type
                         /\ l[k].entity_id = entity_id
                         /\ l[k].time_mins = t

\* C33: every treatment and every repair is visible in the log: a set
\* time_treatment_started or time_treatment_completed of a casualty, and a
\* set time_repair_started or time_repair_completed of a breakdown, has its
\* TREATMENT_STARTED, TREATMENT_COMPLETED, REPAIR_STARTED or
\* REPAIR_COMPLETED event of that entity and time, with or without a
\* capacity limit at the node.
TreatmentAndRepairLogged ==
    /\ \A c \in DOMAIN casualties :
           /\ casualties[c].time_treatment_started # None
                  => Logged(log, "treatment_started", CasId(c),
                            casualties[c].time_treatment_started)
           /\ casualties[c].time_treatment_completed # None
                  => Logged(log, "treatment_completed", CasId(c),
                            casualties[c].time_treatment_completed)
    /\ \A b \in DOMAIN breakdowns :
           /\ breakdowns[b].time_repair_started # None
                  => Logged(log, "repair_started", BdId(b),
                            breakdowns[b].time_repair_started)
           /\ breakdowns[b].time_repair_completed # None
                  => Logged(log, "repair_completed", BdId(b),
                            breakdowns[b].time_repair_completed)

\* a casualty has been treated at a node without a capacity limit, and the
\* log holds no event of any treatment
TreatedWithoutAnyEvent ==
    \E c \in DOMAIN casualties :
        /\ casualties[c].time_treatment_completed # None
        /\ casualties[c].delivered_to \notin DOMAIN node_resources
        /\ \A k \in 1..Len(log) :
               log[k].event_type
                   \notin {"treatment_started", "treatment_completed"}

----------------------------------------------------------------------------
(* Demand type of a rate-based specification *)

\* the casualties, ammo requests and breakdowns that the step creates
NewCasualties == DOMAIN casualties' \ DOMAIN casualties
NewAmmoRequests == DOMAIN ammo_requests' \ DOMAIN ammo_requests
NewBreakdowns == DOMAIN breakdowns' \ DOMAIN breakdowns

\* the step creates entities of the type that rate-based specification g
\* declares, and of no other type, at the location of g, each one waiting
\* in the dispatch queue of its type after the step
ArrivalCreatesDeclaredType(g) ==
    LET config == scenario.demand.rate_based[g]
    IN CASE config.type = "casualty" ->
                /\ NewCasualties # {}
                /\ NewAmmoRequests = {} /\ NewBreakdowns = {}
                /\ \A c \in NewCasualties :
                       /\ casualties'[c].origin_node = config.location
                       /\ \E i \in 1..Len(casualty_queue') :
                              casualty_queue'[i].casualty = c
         [] config.type = "ammo_request" ->
                /\ NewAmmoRequests # {}
                /\ NewCasualties = {} /\ NewBreakdowns = {}
                /\ \A a \in NewAmmoRequests :
                       /\ ammo_requests'[a].location = config.location
                       /\ \E i \in 1..Len(ammo_queue') :
                              ammo_queue'[i].ammo_request = a
         [] config.type = "vehicle_breakdown" ->
                /\ NewBreakdowns # {}
                /\ NewCasualties = {} /\ NewAmmoRequests = {}
                /\ \A b \in NewBreakdowns :
                       /\ breakdowns'[b].location = config.location
                       /\ \E i \in 1..Len(recovery_queue') :
                              recovery_queue'[i].breakdown = b
         [] OTHER -> FALSE

\* C34: each rate-based specification drives a generator for its own
\* demand type: every arrival of a specification of type casualty, ammo
\* request or vehicle breakdown creates entities of that type at the
\* location of the specification and inserts them into the matching
\* dispatch queue.
RateGeneratorCreatesDeclaredType ==
    [][\A g \in 1..Len(scenario.demand.rate_based) :
           Resumes("rate") /\ NextEvent(queue).id = g /\ ArrivalInWindow(g)
               => ArrivalCreatesDeclaredType(g)]_vars

\* the generator of a specification of type ammo request has run to the end
\* of its window, and no ammo request was created
AmmoSpecificationCreatedNothing ==
    /\ phase = "RUNNING"
    /\ scenario.demand.mode = "rate_based"
    /\ scenario.demand.rate_based[1].type = "ammo_request"
    /\ scenario.demand.rate_based[1].active_from_mins = 0
    /\ gproc.rate[1] = "done"
    /\ DOMAIN ammo_requests = {}
    /\ ammo_queue = <<>>

----------------------------------------------------------------------------
(* Idle pools *)

\* the idle pool of the role (and tow class) of vehicle v
PoolOf(v) ==
    CASE scenario.vehicles[v].role = "ambulance" -> idle_ambulances
      [] scenario.vehicles[v].role = "recovery" -> idle_recovery[TowClassOf(v)]
      [] scenario.vehicles[v].role = "ammo_logistics" -> idle_logistics
      [] OTHER -> <<>>

\* C35: idle-pool membership and vehicle state agree: in every state
\* between two process steps, a vehicle is in the idle pool of its role (and
\* tow class) if and only if its state is IDLE.
PoolMembershipAgreesWithState ==
    phase = "RUNNING" =>
        \A v \in DOMAIN vehicles :
            scenario.vehicles[v].role \in PooledRoles =>
                (In(v, PoolOf(v)) <=> vehicles[v].state = "idle")

\* a broken-down vehicle that waits for recovery is still in its idle pool
BrokenDownVehicleInIdlePool ==
    /\ phase = "RUNNING"
    /\ \E v \in DOMAIN vehicles :
           /\ scenario.vehicles[v].role \in PooledRoles
           /\ vehicles[v].state = "broken_down"
           /\ OpenBreakdowns(v) # {}
           /\ In(v, PoolOf(v))

\* the number of times x occurs in lst
Occurrences(x, lst) == Cardinality({i \in 1..Len(lst) : lst[i] = x})

\* the number of times vehicle v occurs across the idle pools
OccurrencesInPools(v) ==
    Occurrences(v, idle_ambulances) + Occurrences(v, idle_logistics)
    + Occurrences(v, idle_recovery["light"])
    + Occurrences(v, idle_recovery["medium"])
    + Occurrences(v, idle_recovery["heavy"])

\* C36: no idle pool ever contains the same vehicle ID twice: after any
\* interleaving of mission completions, repair completions, crew-rest ends
\* and maintenance completions, each vehicle ID occurs at most once across
\* the idle pools.
VehicleAtMostOnceInPools ==
    \A v \in DOMAIN vehicles : OccurrencesInPools(v) <= 1

\* a vehicle occurs twice in the idle pool of its role
VehicleTwiceInIdlePool ==
    \E v \in DOMAIN vehicles : Occurrences(v, PoolOf(v)) >= 2

----------------------------------------------------------------------------
(* A broken-down vehicle *)

\* the events of a mission: dispatch, arrival, loading, unloading, delivery
MissionEvents ==
    {"vehicle_dispatched", "vehicle_arrived", "loading_started",
     "loading_completed", "unloading_started", "unloading_completed",
     "casualty_collected", "casualty_delivered", "ammo_loaded",
     "ammo_delivered"}

\* event e is an event of a mission of vehicle v
IsMissionEventOf(e, v) ==
    /\ e.event_type \in MissionEvents
    /\ e.entity_id = VehId(v) \/ e.details.ref = VehId(v)

\* the step is a step of the process of vehicle v that takes a request out
\* of a dispatch queue
PopsRequestFor(v) ==
    /\ Resumes("vehicle")
    /\ NextEvent(queue).id = v
    /\ \/ Len(casualty_queue') < Len(casualty_queue)
       \/ Len(recovery_queue') < Len(recovery_queue)
       \/ Len(ammo_queue') < Len(ammo_queue)

\* C37: from the instant a breakdown occurs for a vehicle until the repair
\* of that breakdown completes, the vehicle neither starts nor continues a
\* mission: no request is popped for it and it logs no dispatch, arrival,
\* loading, unloading or delivery, whether it was idle or on a mission when
\* the breakdown occurred.
BrokenDownVehicleOutOfAction ==
    [][\A v \in DOMAIN vehicles :
           OpenBreakdowns(v) # {} =>
               /\ ~PopsRequestFor(v)
               /\ \A k \in 1..Len(NewLog) : ~IsMissionEventOf(NewLog[k], v)
      ]_vars

\* a vehicle whose breakdown is not repaired was dispatched to a request
\* after the breakdown occurred
DispatchedWhileBrokenDown ==
    \E b \in DOMAIN breakdowns :
        /\ breakdowns[b].time_repair_completed = None
        /\ breakdowns[b].vehicle_id \in DOMAIN vehicles
        /\ \E k \in 1..Len(log) :
               /\ log[k].event_type = "vehicle_dispatched"
               /\ log[k].entity_id = VehId(breakdowns[b].vehicle_id)
               /\ log[k].time_mins > breakdowns[b].time_occurred

\* C38: a recovery vehicle is never dispatched to recover itself: for every
\* breakdown whose recovered_by is set, recovered_by differs from the
\* vehicle_id of the breakdown, also when the broken-down vehicle is a
\* recovery vehicle whose tow class covers its own weight class.
NeverRecoversItself ==
    \A b \in DOMAIN breakdowns :
        breakdowns[b].recovered_by # None
            => breakdowns[b].recovered_by # breakdowns[b].vehicle_id

\* a recovery vehicle has hooked up the breakdown of itself
RecoveryVehicleHookedUpItself ==
    \E b \in DOMAIN breakdowns :
        /\ breakdowns[b].recovered_by = breakdowns[b].vehicle_id
        /\ breakdowns[b].vehicle_id \in DOMAIN vehicles
        /\ scenario.vehicles[breakdowns[b].vehicle_id].role = "recovery"
        /\ breakdowns[b].time_hookup_completed # None

----------------------------------------------------------------------------
(* The return of a dispatched vehicle *)

\* the process of vehicle v is between the dispatch and the end of a mission
OnMission(v) ==
    v \in DOMAIN vproc /\ vproc[v].pc \notin {"off", "start", "top"}

\* vehicle v is back in the idle pool of its role with state IDLE
IdleInPool(v) == In(v, PoolOf(v)) /\ vehicles[v].state = "idle"

\* vehicle v has been dispatched in a run that goes on
Dispatched(v) ==
    /\ phase = "RUNNING"
    /\ v \in DOMAIN vehicles
    /\ OnMission(v)

\* vehicle v is back, or it is excused: a leg of its mission is infinite, or
\* the run has ended before the mission did
BackOrExcused(v) ==
    \/ v \in DOMAIN vehicles /\ IdleInPool(v)
    \/ Stalled(v)
    \/ phase = "ENDED" /\ OnMission(v)

\* C39: every dispatched vehicle whose travel legs are all finite eventually
\* re-enters its idle pool with state IDLE, provided the run lasts long
\* enough; this includes an ambulance that has collected a casualty when no
\* medical facility is reachable from the pickup node, and a recovery
\* vehicle that has hooked up when no workshop is reachable.
DispatchedVehicleEventuallyIdle ==
    \A v \in 1..4 : Dispatched(v) ~> BackOrExcused(v)

\* the run has ended with an ambulance that collected a casualty where no
\* medical facility is reachable: it is back at the head of its loop, not
\* IDLE and in no idle pool
AmbulanceStuckAfterCollection ==
    /\ phase = "ENDED"
    /\ \E v \in DOMAIN vehicles :
           /\ scenario.vehicles[v].role = "ambulance"
           /\ vproc[v].pc = "top"
           /\ vehicles[v].state = "loading"
           /\ ~In(v, idle_ambulances)
           /\ vehicles[v].casualties_aboard # <<>>

----------------------------------------------------------------------------
(* The whereabouts of casualties and breakdowns *)

\* the number of requests for casualty c in the casualty queue
TimesInCasualtyQueue(c) ==
    Cardinality({i \in 1..Len(casualty_queue) : casualty_queue[i].casualty = c})

\* the ambulances that serve casualty c: on a mission for it, or with it
\* aboard
AmbulancesServing(c) ==
    {v \in DOMAIN vehicles :
        /\ scenario.vehicles[v].role = "ambulance"
        /\ casualties[c].time_delivered = None
        /\ \/ OnMission(v) /\ vproc[v].request = c
           \/ In(c, vehicles[v].casualties_aboard)}

\* the number of requests for breakdown b in the recovery queue
TimesInRecoveryQueue(b) ==
    Cardinality({i \in 1..Len(recovery_queue) : recovery_queue[i].breakdown = b})

\* the recovery vehicles that are on a mission for breakdown b
RecoveryVehiclesServing(b) ==
    {v \in DOMAIN vehicles :
        /\ scenario.vehicles[v].role = "recovery"
        /\ breakdowns[b].time_arrived_workshop = None
        /\ OnMission(v) /\ vproc[v].request = b}

\* an entity that is n times in its queue, served by the vehicles in
\* serving, and handed over or not, is in exactly one situation
InExactlyOneSituation(n, serving, handed_over) ==
    \/ n = 1 /\ serving = {} /\ ~handed_over
    \/ n = 0 /\ Cardinality(serving) = 1 /\ ~handed_over
    \/ n = 0 /\ serving = {} /\ handed_over

\* C40: no casualty or breakdown is lost or duplicated: in every reachable
\* state each casualty (breakdown) of the registry waits exactly once in its
\* dispatch queue, or is assigned to exactly one vehicle that still serves
\* it, or has been handed over to a medical node (workshop) for treatment
\* (repair).
NothingLostOrDuplicated ==
    /\ \A c \in DOMAIN casualties :
           InExactlyOneSituation(TimesInCasualtyQueue(c), AmbulancesServing(c),
                                 casualties[c].time_delivered # None)
    /\ \A b \in DOMAIN breakdowns :
           InExactlyOneSituation(TimesInRecoveryQueue(b),
                                 RecoveryVehiclesServing(b),
                                 breakdowns[b].time_arrived_workshop # None)

\* a breakdown was hooked up where no workshop is reachable: it is in no
\* queue, no vehicle serves it and no workshop has it
BreakdownDroppedAfterHookup ==
    \E b \in DOMAIN breakdowns :
        /\ breakdowns[b].time_hookup_completed # None
        /\ breakdowns[b].time_arrived_workshop = None
        /\ TimesInRecoveryQueue(b) = 0
        /\ RecoveryVehiclesServing(b) = {}
        /\ \A n \in 1..Len(scenario.nodes) :
               scenario.nodes[n].type # "repair_workshop"

=============================================================================
